---- MODULE Spec2Model ----
(***************************************************************************)
(* Finite-difference Schroedinger solver of quantum_playground             *)
(* (src/src/quantum_playground/solvers.py): the spatial grid, the kinetic  *)
(* operator, the stationary eigen-solve and wave-packet normalisation.     *)
(*                                                                         *)
(* Numbers.  A Python/numpy float is modelled by an exact extended         *)
(* rational <<n, d>> in lowest terms: d > 0 is the finite value n/d,       *)
(* <<1,0>> is +inf, <<-1,0>> is -inf and <<0,0>> is nan, with numpy's      *)
(* rules for division by zero and for the square root of a negative        *)
(* number.  Rounding is not modelled.                                      *)
(***************************************************************************)
EXTENDS Integers, Sequences, FiniteSets, TLC

VARIABLES grid, solver, td, used, psi, pot, sim, api, hooks, ret

vars == <<grid, solver, td, used, psi, pot, sim, api, hooks, ret>>

(***************************************************************************)
(* Bounds of the model.                                                    *)
(***************************************************************************)
MaxCoord == 1
MaxPoints == 3
MaxEig == 6
MaxSteps == 3

(***************************************************************************)
(* Extended rational arithmetic (float64 without rounding).                *)
(***************************************************************************)
Abs(n) == IF n < 0 THEN -n ELSE n

Sgn(n) == IF n < 0 THEN -1 ELSE IF n > 0 THEN 1 ELSE 0

RECURSIVE GCD(_, _)
GCD(a, b) == IF b = 0 THEN a ELSE GCD(b, a % b)

Rat(n, d) ==
    IF d = 0 THEN <<Sgn(n), 0>>
    ELSE LET g == GCD(Abs(n), Abs(d))
             s == Sgn(d)
         IN  <<(s * n) \div g, (s * d) \div g>>

Int2R(k) == <<k, 1>>

NaN == <<0, 0>>

IsFinite(a) == a[2] # 0

IsNaN(a) == a = NaN

RNeg(a) == <<-a[1], a[2]>>

RAdd(a, b) ==
    IF IsFinite(a) /\ IsFinite(b)
    THEN LET g == GCD(a[2], b[2])
         IN  Rat(a[1] * (b[2] \div g) + b[1] * (a[2] \div g), (a[2] \div g) * b[2])
    ELSE IF IsNaN(a) \/ IsNaN(b) THEN NaN
    ELSE IF IsFinite(a) THEN b
    ELSE IF IsFinite(b) THEN a
    ELSE IF a = b THEN a ELSE NaN

RSub(a, b) == RAdd(a, RNeg(b))

RMul(a, b) ==
    IF IsFinite(a) /\ IsFinite(b)
    THEN LET g == GCD(Abs(a[1]), b[2])
             h == GCD(Abs(b[1]), a[2])
         IN  Rat((a[1] \div g) * (b[1] \div h), (a[2] \div h) * (b[2] \div g))
    ELSE IF IsNaN(a) \/ IsNaN(b) \/ a[1] = 0 \/ b[1] = 0 THEN NaN
    ELSE <<Sgn(a[1]) * Sgn(b[1]), 0>>

\* numpy float64 division: x/0 is +-inf, 0/0 is nan, never an exception
RDiv(a, b) ==
    IF IsFinite(a) /\ IsFinite(b)
    THEN IF b[1] = 0 THEN Rat(a[1], 0)
         ELSE LET g == GCD(Abs(a[1]), Abs(b[1]))
                  h == GCD(a[2], b[2])
              IN  Rat((a[1] \div g) * (b[2] \div h), (a[2] \div h) * (b[1] \div g))
    ELSE IF IsNaN(a) \/ IsNaN(b) THEN NaN
    ELSE IF IsFinite(a) THEN <<0, 1>>
    ELSE IF IsFinite(b) THEN <<a[1] * (IF b[1] < 0 THEN -1 ELSE 1), 0>>
    ELSE NaN

\* comparisons with a nan operand are false, as in IEEE arithmetic
RLt(a, b) ==
    /\ ~IsNaN(a) /\ ~IsNaN(b)
    /\ IF IsFinite(a) /\ IsFinite(b) THEN a[1] * b[2] < b[1] * a[2]
       ELSE IF IsFinite(a) THEN b[1] > 0
       ELSE IF IsFinite(b) THEN a[1] < 0
       ELSE a[1] < b[1]

RLe(a, b) == ~IsNaN(a) /\ ~IsNaN(b) /\ (a = b \/ RLt(a, b))

RAbs(a) == <<Abs(a[1]), a[2]>>

RECURSIVE RSum(_)
RSum(s) == IF s = <<>> THEN Int2R(0) ELSE RAdd(Head(s), RSum(Tail(s)))

\* the square of np.sqrt(a): nan for a negative argument
SqrtSquared(a) == IF RLt(a, Int2R(0)) THEN NaN ELSE a

(***************************************************************************)
(* QuantumGrid                                                             *)
(***************************************************************************)
NoGrid == [kind |-> "none"]

\* np.linspace(x_min, x_max, num) for num >= 2: num evenly spaced samples,
\* end point included
Linspace(x_min, x_max, num) ==
    [i \in 1..num |-> RAdd(Int2R(x_min), Rat((i - 1) * (x_max - x_min), num - 1))]

\* QuantumGrid.__init__: the constructed object, or the exception that leaves
\* no object behind.  np.linspace refuses a negative sample count and x[1]
\* does not exist for fewer than two samples.
QuantumGridInit(x_min, x_max, num_points) ==
    IF num_points < 0 THEN [kind |-> "error", error |-> "ValueError"]
    ELSE IF num_points < 2 THEN [kind |-> "error", error |-> "IndexError"]
    ELSE LET x == Linspace(x_min, x_max, num_points)
         IN  [kind |-> "grid", x_min |-> x_min, x_max |-> x_max,
              num_points |-> num_points, x |-> x, dx |-> RSub(x[2], x[1])]

Coords == -MaxCoord..MaxCoord

PointCounts == -1..MaxPoints

\* the sparse tridiagonal operator sparse.diags builds from three diagonals
Tridiag(n, sup, main, sub) ==
    [kind |-> "matrix", n |-> n, sup |-> sup, main |-> main, sub |-> sub]

\* the stencil [1, -2, 1]/dx^2 scaled by +1/(2m): the operator without its
\* minus sign
KineticEnergyMatrixPlainStencil(g, mass) ==
    IF 2 * mass = 0 THEN [kind |-> "error", error |-> "ZeroDivisionError"]
    ELSE LET coeff == RDiv(Rat(1, 2 * mass), RMul(g.dx, g.dx))
             n == g.num_points
         IN  Tridiag(n,
                     [i \in 1..(n - 1) |-> coeff],
                     [i \in 1..n |-> RMul(Int2R(-2), coeff)],
                     [i \in 1..(n - 1) |-> coeff])

\* QuantumGrid.kinetic_energy_matrix: -1/(2m) d2/dx2 by the three-point
\* stencil.  1.0/(2.0*mass) is a Python float division, which raises for
\* mass 0; the division by dx**2 is numpy's and never raises.
KineticEnergyMatrix(g, mass) ==
    IF 2 * mass = 0 THEN [kind |-> "error", error |-> "ZeroDivisionError"]
    ELSE LET hbar_sq_over_2m == Rat(1, 2 * mass)
             coeff == RDiv(RNeg(hbar_sq_over_2m), RMul(g.dx, g.dx))
             n == g.num_points
         IN  Tridiag(n,
                     [i \in 1..(n - 1) |-> coeff],
                     [i \in 1..n |-> RMul(Int2R(-2), coeff)],
                     [i \in 1..(n - 1) |-> coeff])

Masses == {-1, 0, 1, 2}

NoSolver == [kind |-> "none"]

(***************************************************************************)
(* GaussianWavePacket                                                      *)
(*                                                                         *)
(* A packet array is kept in closed form: component j is                   *)
(*     sqrt(r / G^gpow) * amp * exp(-q[j]) * exp(i theta[j]),              *)
(* where G = sum_k exp(-2 q[k]) is the Gaussian sum of the array itself.   *)
(* create gives r = 1, gpow = 0; dividing the array by its norm changes r  *)
(* and gpow only.  G is positive and finite unless every term underflows:  *)
(* exp(-q) is 0.0 in float64 for q >= 746, and |psi[j]|^2 is 0.0 for       *)
(* 2 q >= 748 at the amplitudes drawn here (|amp| <= 2); it is positive    *)
(* for 2 q <= 745, and the inputs stay clear of the values in between.     *)
(***************************************************************************)
NoPsi == [kind |-> "none"]

\* GaussianWavePacket.create: amplitude * exp(-(x - x0)^2 / (2 sigma^2)) *
\* exp(1j * k0 * x)
GaussianCreate(x, x0, sigma, k0, amplitude) ==
    [kind |-> "packet",
     amp |-> Int2R(amplitude),
     q |-> [j \in 1..Len(x) |->
              RDiv(RMul(RSub(x[j], Int2R(x0)), RSub(x[j], Int2R(x0))),
                   Int2R(2 * sigma * sigma))],
     theta |-> [j \in 1..Len(x) |-> RMul(Int2R(k0), x[j])],
     r |-> Int2R(1),
     gpow |-> 0]

\* some component of the created array is exactly 0.0
PsiUnderflows(p) == \E j \in 1..Len(p.q) : RLe(Int2R(746), p.q[j])

\* every |psi[j]|^2 of the created array is 0.0
Vanishes(p) == \A j \in 1..Len(p.q) : RLe(Int2R(748), RMul(Int2R(2), p.q[j]))

\* np.sum(np.abs(psi) ** 2) * dx, as coef * G^gexp
PacketNormSq(p, dx) ==
    [coef |-> IF IsFinite(p.r) /\ Vanishes(p) THEN RMul(Int2R(0), dx)
              ELSE RMul(RMul(p.r, RMul(p.amp, p.amp)), dx),
     gexp |-> 1 - p.gpow]

\* GaussianWavePacket.normalize: norm = np.sqrt(sum |psi|^2 * dx);
\* return psi / norm.  The division is numpy's: it yields nan or inf
\* components for a zero norm and raises nothing (0.0 / 0.0 is nan).
GaussianNormalize(p, dx) ==
    LET n2 == PacketNormSq(p, dx)
    IN  [kind |-> "packet", amp |-> p.amp, q |-> p.q, theta |-> p.theta,
         r |-> IF n2.coef = Int2R(0) /\ PsiUnderflows(p) THEN NaN
               ELSE RDiv(p.r, SqrtSquared(n2.coef)),
         gpow |-> p.gpow + n2.gexp]

\* |psi[j]|^2 up to the positive factor exp(-2 q[j]) / G^gpow
PacketWeight(p) == RMul(p.r, RMul(p.amp, p.amp))

\* packet centres: on the grid, and so far off it that the packet underflows
\* for sigma = 1
X0s == {0, 1, 40}

Sigmas == {1, 2}

K0s == {0, 2}

Amplitudes == {-1, 0, 1, 2}


(***************************************************************************)
(* StationarySolver                                                        *)
(***************************************************************************)
\* StationarySolver.__init__: the kinetic operator is built once and kept;
\* an exception of kinetic_energy_matrix leaves no solver behind
StationarySolverInit(g, mass) ==
    LET T == KineticEnergyMatrix(g, mass)
    IN  IF T.kind = "error" THEN T
        ELSE [kind |-> "solver", grid |-> g, mass |-> mass, T |-> T]

\* sparse.diags(potential, offsets=0, shape=(n, n)): the values are assigned
\* to the n diagonal slots as data[0:n] = potential[..., :n], so a longer
\* array is cut to n, a one-element array is broadcast, and only a shorter
\* one (an empty one included) is refused
SparseDiags(potential, n) ==
    IF Len(potential) >= n THEN [kind |-> "diag", d |-> SubSeq(potential, 1, n)]
    ELSE IF Len(potential) = 1 THEN [kind |-> "diag", d |-> [i \in 1..n |-> potential[1]]]
    ELSE [kind |-> "error", error |-> "ValueError"]

\* H = self.T + V
Hamiltonian(T, V) ==
    Tridiag(T.n, T.sup, [i \in 1..T.n |-> RAdd(T.main[i], V.d[i])], T.sub)

\* a solve that adds the potential to the kept kinetic operator in place
SolveSelfAddsInPlace(s, V) ==
    IF V.kind = "error" THEN s ELSE [s EXCEPT !.T = Hamiltonian(s.T, V)]

\* the solver object after solve_eigenproblem with the potential matrix V
\* (or the error of sparse.diags): H = self.T + V is a new matrix and the
\* method assigns no attribute
SolveSelf(s, V) == s

FiniteMatrix(M) ==
    /\ \A i \in 1..M.n : IsFinite(M.main[i])
    /\ \A i \in 1..(M.n - 1) : IsFinite(M.sup[i]) /\ IsFinite(M.sub[i])

\* row i of M v
Row(M, v, i) ==
    RAdd(RMul(M.main[i], v[i]),
         RAdd(IF i > 1 THEN RMul(M.sub[i - 1], v[i - 1]) ELSE Int2R(0),
              IF i < M.n THEN RMul(M.sup[i], v[i + 1]) ELSE Int2R(0)))

IsEigenpair(M, lam, v) == \A i \in 1..M.n : Row(M, v, i) = RMul(lam, v[i])

\* the solution of rows 1..n-1 of (M - lam) v = 0 that starts with v, by the
\* three-term recurrence of a tridiagonal matrix
RECURSIVE Recurrence(_, _, _)
Recurrence(M, lam, v) ==
    IF Len(v) = M.n THEN v
    ELSE LET i == Len(v)
             below == IF i > 1 THEN RMul(M.sub[i - 1], v[i - 1]) ELSE Int2R(0)
             here == RMul(RSub(M.main[i], lam), v[i])
         IN  Recurrence(M, lam, Append(v, RDiv(RNeg(RAdd(here, below)), M.sup[i])))

\* the eigenvalues of M among the multiples j * |M.sup[1]|, |j| <= MaxEig
Spectrum(M) ==
    {lam \in {RMul(RAbs(M.sup[1]), Int2R(j)) : j \in -MaxEig..MaxEig} :
        IsEigenpair(M, lam, Recurrence(M, lam, <<Int2R(1)>>))}

\* the model solves only operators whose whole spectrum it can represent
Representable(M) == FiniteMatrix(M) /\ Cardinality(Spectrum(M)) = M.n

SumSq(v) == RSum([i \in 1..Len(v) |-> RMul(v[i], v[i])])

Dot(u, v) == RSum([i \in 1..Len(u) |-> RMul(u[i], v[i])])

\* A column is dir * sqrt(sq): a direction with rational components and the
\* square of its scale.  ARPACK returns eigenvectors of Euclidean norm 1, of
\* either sign.
UnitEigenvector(M, lam, sign) ==
    LET v == Recurrence(M, lam, <<Int2R(sign)>>)
    IN  [dir |-> v, sq |-> RDiv(Int2R(1), SumSq(v))]

\* what `which` orders by: 'SA' the algebraic value, 'SM' the magnitude
WhichKey(which, lam) == IF which = "SA" THEN lam ELSE RAbs(lam)

\* the sets of k eigenvalues eigsh may be asked for (several on a tie)
Wanted(spec, k, which) ==
    {W \in SUBSET spec :
        /\ Cardinality(W) = k
        /\ \A a \in W, b \in spec \ W : RLe(WhichKey(which, a), WhichKey(which, b))}

Orderings(W) ==
    {s \in [1..Cardinality(W) -> W] : \A i, j \in 1..Cardinality(W) : s[i] = s[j] => i = j}

EigshResults(M, kind, found) ==
    {[kind |-> kind, vals |-> vals,
      vecs |-> [i \in 1..Len(vals) |-> UnitEigenvector(M, vals[i], sg[i])]] :
        vals \in Orderings(found), sg \in [1..Cardinality(found) -> {1, -1}]}

\* sp_linalg.eigsh(H, k=k, which=which): k outside 1..n-1 is refused; else
\* either the k wanted pairs, in an order and with signs the library does
\* not promise, or ArpackNoConvergence carrying the pairs that converged
Eigsh(M, k, which) ==
    IF k <= 0 THEN {[kind |-> "error", error |-> "ValueError"]}
    ELSE IF k >= M.n THEN {[kind |-> "error", error |-> "TypeError"]}
    ELSE IF ~Representable(M) THEN {}
    ELSE UNION {EigshResults(M, "ok", W)
                    \cup UNION {EigshResults(M, "ArpackNoConvergence", P) :
                                    P \in (SUBSET W) \ {W}} :
                W \in Wanted(Spectrum(M), k, which)}

\* np.argsort: the indices in ascending order of value
RECURSIVE InsertIndex(_, _, _)
InsertIndex(vals, idx, j) ==
    IF idx = <<>> THEN <<j>>
    ELSE IF RLt(vals[j], vals[Head(idx)]) THEN <<j>> \o idx
    ELSE <<Head(idx)>> \o InsertIndex(vals, Tail(idx), j)

RECURSIVE ArgsortPrefix(_, _)
ArgsortPrefix(vals, m) ==
    IF m = 0 THEN <<>> ELSE InsertIndex(vals, ArgsortPrefix(vals, m - 1), m)

\* the sort left out: the indices in the order eigsh gave
ArgsortAsGiven(vals) == [i \in 1..Len(vals) |-> i]

Argsort(vals) == ArgsortPrefix(vals, Len(vals))

\* a[idx]
Take(a, idx) == [i \in 1..Len(idx) |-> a[idx[i]]]

\* sum |psi|^2 dx of a column
ColumnNormSq(col, dx) == RMul(RMul(SumSq(col.dir), col.sq), dx)

\* norm = sqrt(sum |v|^2 * dx);  v /= norm
NormalizeColumn(col, dx) ==
    [dir |-> col.dir, sq |-> RDiv(col.sq, SqrtSquared(ColumnNormSq(col, dx)))]

\* solve_eigenproblem after the Hamiltonian is assembled: e is what eigsh
\* did.  Its other exceptions propagate; ArpackNoConvergence is caught, a
\* warning is issued and the partial pairs are used as the result.
\* the energies sorted and the columns left in the order eigsh gave
SolveWithColumnsAsGiven(s, e) ==
    IF e.kind = "error" THEN e
    ELSE [kind |-> "return",
          energies |-> Take(e.vals, Argsort(e.vals)),
          wavefunctions |-> [i \in 1..Len(e.vecs) |->
                                NormalizeColumn(e.vecs[i], s.grid.dx)]]

SolveWith(s, e) ==
    IF e.kind = "error" THEN e
    ELSE LET idx == Argsort(e.vals)
             eigenvalues == Take(e.vals, idx)
             eigenvectors == Take(e.vecs, idx)
         IN  [kind |-> "return",
              energies |-> eigenvalues,
              wavefunctions |-> [i \in 1..Len(eigenvectors) |->
                                    NormalizeColumn(eigenvectors[i], s.grid.dx)]]

\* Potentials offered to a solver: multiples of its kinetic scale
\* c = |T.sup[1]| whose Hamiltonian has a representable spectrum (a well and
\* a barrier on three points, a flat potential on two, each shifted), and
\* arrays of a wrong length
Shapes(n) ==
    IF n = 2 THEN {<<0, 0>>}
    ELSE IF n = 3 THEN {<<1, 0, 1>>, <<0, 1, 0>>}
    ELSE {}

Shifts == {-5, -3, 0}

PotentialInputs(s) ==
    LET n == s.grid.num_points
        c == RAbs(s.T.sup[1])
        right == {[i \in 1..n |-> RMul(c, Int2R(w[i] + sh))] : w \in Shapes(n), sh \in Shifts}
    IN  right
          \cup {Append(p, Int2R(0)) : p \in right}
          \cup {<<>>, <<RMul(c, Int2R(-3))>>, [i \in 1..(n - 1) |-> Int2R(0)]}

WhichArgs == {"default", "SA"}

Ks == 0..MaxPoints


(***************************************************************************)
(* TimeDependentSolver (Crank-Nicolson)                                    *)
(*                                                                         *)
(* A complex number is <<re, im>> with rational parts; a complex           *)
(* tridiagonal matrix has the shape of Tridiag with complex entries.       *)
(***************************************************************************)
Cx(re, im) == <<re, im>>

CZero == Cx(Int2R(0), Int2R(0))

COne == Cx(Int2R(1), Int2R(0))

CAdd(a, b) == Cx(RAdd(a[1], b[1]), RAdd(a[2], b[2]))

CSub(a, b) == Cx(RSub(a[1], b[1]), RSub(a[2], b[2]))

CMul(a, b) ==
    Cx(RSub(RMul(a[1], b[1]), RMul(a[2], b[2])),
       RAdd(RMul(a[1], b[2]), RMul(a[2], b[1])))

CAbsSq(a) == RAdd(RMul(a[1], a[1]), RMul(a[2], a[2]))

CDiv(a, b) ==
    LET d == CAbsSq(b)
    IN  Cx(RDiv(RAdd(RMul(a[1], b[1]), RMul(a[2], b[2])), d),
           RDiv(RSub(RMul(a[2], b[1]), RMul(a[1], b[2])), d))

\* the two signs exchanged: I - f H on the left and I + f H on the right
IdentityPlusSwapped(sign, f, H) ==
    LET g == CMul(Cx(Int2R(-sign), Int2R(0)), f)
    IN  Tridiag(H.n,
                [i \in 1..(H.n - 1) |-> CMul(g, Cx(H.sup[i], Int2R(0)))],
                [i \in 1..H.n |-> CAdd(COne, CMul(g, Cx(H.main[i], Int2R(0))))],
                [i \in 1..(H.n - 1) |-> CMul(g, Cx(H.sub[i], Int2R(0)))])

\* the right-hand matrix taken over a full step: I + f H and I - 2 f H
IdentityPlusFullStep(sign, f, H) ==
    LET g == IF sign = 1 THEN f
             ELSE CMul(Cx(Int2R(-2), Int2R(0)), f)
    IN  Tridiag(H.n,
                [i \in 1..(H.n - 1) |-> CMul(g, Cx(H.sup[i], Int2R(0)))],
                [i \in 1..H.n |-> CAdd(COne, CMul(g, Cx(H.main[i], Int2R(0))))],
                [i \in 1..(H.n - 1) |-> CMul(g, Cx(H.sub[i], Int2R(0)))])

\* I + f * H and I - f * H for a complex factor f (sign is 1 or -1)
IdentityPlus(sign, f, H) ==
    LET g == CMul(Cx(Int2R(sign), Int2R(0)), f)
    IN  Tridiag(H.n,
                [i \in 1..(H.n - 1) |-> CMul(g, Cx(H.sup[i], Int2R(0)))],
                [i \in 1..H.n |-> CAdd(COne, CMul(g, Cx(H.main[i], Int2R(0))))],
                [i \in 1..(H.n - 1) |-> CMul(g, Cx(H.sub[i], Int2R(0)))])

\* the pivots u[1..m] of the LU factorization of a tridiagonal matrix
RECURSIVE Pivots(_, _)
Pivots(A, m) ==
    IF m = 1 THEN <<A.main[1]>>
    ELSE LET u == Pivots(A, m - 1)
         IN  Append(u, CSub(A.main[m],
                            CMul(CDiv(A.sub[m - 1], u[m - 1]), A.sup[m - 1])))

\* sp_linalg.splu(A): the factorization, or RuntimeError ("Factor is exactly
\* singular") when a pivot is zero
Splu(A) ==
    LET u == Pivots(A, A.n)
    IN  IF \E i \in 1..A.n : u[i] = CZero
        THEN [kind |-> "error", error |-> "RuntimeError"]
        ELSE [kind |-> "lu", n |-> A.n, u |-> u, sup |-> A.sup,
              l |-> [i \in 1..(A.n - 1) |-> CDiv(A.sub[i], u[i])]]

\* TimeDependentSolver.__init__ with _build_crank_nicolson_matrices
TimeDependentSolverInit(g, potential, mass, dt) ==
    LET T == KineticEnergyMatrix(g, mass)
        V == SparseDiags(potential, g.num_points)
    IN  IF T.kind = "error" THEN T
        ELSE IF V.kind = "error" THEN V
        ELSE LET H == Hamiltonian(T, V)
                 coeff == Cx(Int2R(0), RDiv(dt, Int2R(2)))
                 A == IdentityPlus(1, coeff, H)
                 B == IdentityPlus(-1, coeff, H)
                 A_lu == Splu(A)
             IN  IF A_lu.kind = "error" THEN A_lu
                 ELSE [kind |-> "tdsolver", grid |-> g, potential |-> potential,
                       mass |-> mass, dt |-> dt, T |-> T, V |-> V, H |-> H,
                       A |-> A, B |-> B, A_lu |-> A_lu, factorizations |-> 1]

\* B @ psi
MatVec(M, v) ==
    [i \in 1..M.n |->
        CAdd(CMul(M.main[i], v[i]),
             CAdd(IF i > 1 THEN CMul(M.sub[i - 1], v[i - 1]) ELSE CZero,
                  IF i < M.n THEN CMul(M.sup[i], v[i + 1]) ELSE CZero))]

\* forward substitution L y = b
RECURSIVE Forward(_, _, _)
Forward(lu, b, m) ==
    IF m = 1 THEN <<b[1]>>
    ELSE LET y == Forward(lu, b, m - 1)
         IN  Append(y, CSub(b[m], CMul(lu.l[m - 1], y[m - 1])))

\* back substitution U x = y, components m..n
RECURSIVE Backward(_, _, _)
Backward(lu, y, m) ==
    IF m = lu.n THEN <<CDiv(y[m], lu.u[m])>>
    ELSE LET x == Backward(lu, y, m + 1)
         IN  <<CDiv(CSub(y[m], CMul(lu.sup[m], x[1])), lu.u[m])>> \o x

\* A_lu.solve(rhs)
LuSolve(lu, rhs) == Backward(lu, Forward(lu, rhs, lu.n), 1)

\* TimeDependentSolver.step
Step(s, p) == LuSolve(s.A_lu, MatVec(s.B, p))

\* a step that halves the time step the solver keeps
StepSelfHalveDt(s) == [s EXCEPT !.dt = RDiv(@, Int2R(2))]

\* a step that factorizes the left-hand matrix again before solving
StepSelfRefactorize(s) ==
    [s EXCEPT !.A_lu = Splu(s.A), !.factorizations = @ + 1]

\* the solver object after step: the method reads self.B and self.A_lu and
\* assigns no attribute
StepSelf(s) == s

\* the solver object after the loop of evolve, one step per column after
\* the first
RECURSIVE EvolveSelf(_, _)
EvolveSelf(s, num_steps) ==
    IF num_steps <= 1 THEN s ELSE EvolveSelf(StepSelf(s), num_steps - 1)

\* a loop that records the state before stepping it: column t repeats
\* column t - 1
RECURSIVE EvolveLoopRecordFirst(_, _, _, _, _)
EvolveLoopRecordFirst(s, p, t, num_steps, trajectory) ==
    IF t > num_steps THEN trajectory
    ELSE EvolveLoopRecordFirst(s, Step(s, p), t + 1, num_steps,
                               [trajectory EXCEPT ![t] = p])

\* the loop of evolve from column t (1-based) on
RECURSIVE EvolveLoop(_, _, _, _, _)
EvolveLoop(s, p, t, num_steps, trajectory) ==
    IF t > num_steps THEN trajectory
    ELSE LET p_new == Step(s, p)
         IN  EvolveLoop(s, p_new, t + 1, num_steps, [trajectory EXCEPT ![t] = p_new])

\* an evolve that answers a step count below 1 with a trajectory of no
\* columns
EvolveEmptyTrajectory(s, psi_init, num_steps) ==
    IF num_steps <= 0
    THEN [kind |-> "trajectory", columns |-> <<>>, caller |-> psi_init]
    ELSE LET zeros == [t \in 1..num_steps |-> [i \in 1..s.grid.num_points |-> CZero]]
         IN  [kind |-> "trajectory",
              columns |-> EvolveLoop(s, psi_init, 2, num_steps,
                                     [zeros EXCEPT ![1] = psi_init]),
              caller |-> psi_init]

\* TimeDependentSolver.evolve: trajectory[t] is column t - 1 of the array.
\* np.zeros refuses a negative column count, and column 0 does not exist in
\* an array of no columns.  The loop works on psi_init.copy() and step
\* returns new arrays, so the caller's array (field caller) is as it was.
Evolve(s, psi_init, num_steps) ==
    IF num_steps < 0
    THEN [kind |-> "error", error |-> "ValueError", caller |-> psi_init]
    ELSE IF num_steps = 0
    THEN [kind |-> "error", error |-> "IndexError", caller |-> psi_init]
    ELSE LET zeros == [t \in 1..num_steps |-> [i \in 1..s.grid.num_points |-> CZero]]
             p == psi_init
         IN  [kind |-> "trajectory",
              columns |-> EvolveLoop(s, p, 2, num_steps, [zeros EXCEPT ![1] = p]),
              caller |-> psi_init]

\* the magnitude of the off-diagonal entry of the kinetic operator,
\* 1/(2 |mass| dx^2): the unit in which the inputs below are drawn, so that
\* the Crank-Nicolson matrices have small entries
EnergyUnit(g, mass) ==
    IF mass = 0 THEN Int2R(1)
    ELSE RAbs(RDiv(Int2R(1), RMul(Int2R(2 * mass), RMul(g.dx, g.dx))))

\* time steps: backward, none, forward, each of two time units
Dts(g, mass) ==
    {RMul(Int2R(j), RDiv(Int2R(2), EnergyUnit(g, mass))) : j \in {-1, 0, 1}}

\* potentials given to the time-dependent solver: free, a barrier and a
\* well on the interior points, and an array one entry short
TdPotentials(g, mass) ==
    {[i \in 1..g.num_points |->
        IF 1 < i /\ i < g.num_points THEN RMul(Int2R(v), EnergyUnit(g, mass))
        ELSE Int2R(0)]
        : v \in {-1, 0, 1}}
    \cup {[i \in 1..(g.num_points - 1) |-> Int2R(0)]}

\* two masses with the same magnitude of the kinetic term, and mass 0
TdMasses == {-1, 0, 1}

\* initial wavefunctions: a point state at either end and a state with a phase
PsiInputs(n) ==
    {[i \in 1..n |-> IF i = 1 THEN COne ELSE CZero],
     [i \in 1..n |-> IF i = n THEN COne ELSE CZero],
     [i \in 1..n |-> IF i = 1 THEN COne ELSE
                     IF i = 2 THEN Cx(Int2R(0), Int2R(1)) ELSE CZero]}

StepCounts == -1..MaxSteps

(***************************************************************************)
(* Potentials and the WKB tunneling estimate                               *)
(***************************************************************************)
NoPotential == [kind |-> "none"]

\* a barrier that puts the height on the samples outside [left, right]
RectangularBarrierOutside(height, width, center, x) ==
    LET left == RSub(center, RDiv(width, Int2R(2)))
        right == RAdd(center, RDiv(width, Int2R(2)))
    IN  [kind |-> "barrier", height |-> height, width |-> width,
         center |-> center, left |-> left, right |-> right,
         V |-> [i \in 1..Len(x) |->
                   IF RLe(left, x[i]) /\ RLe(x[i], right) THEN Int2R(0)
                   ELSE height]]

\* RectangularBarrier.__init__ and __call__: height on the samples with
\* left <= x <= right, 0 elsewhere
RectangularBarrier(height, width, center, x) ==
    LET left == RSub(center, RDiv(width, Int2R(2)))
        right == RAdd(center, RDiv(width, Int2R(2)))
    IN  [kind |-> "barrier", height |-> height, width |-> width,
         center |-> center, left |-> left, right |-> right,
         V |-> [i \in 1..Len(x) |->
                   IF RLe(left, x[i]) /\ RLe(x[i], right) THEN height
                   ELSE Int2R(0)]]

\* the largest k in lo..(hi - 1) with k * k <= n, by bisection
RECURSIVE ISqrtIn(_, _, _)
ISqrtIn(n, lo, hi) ==
    IF hi - lo <= 1 THEN lo
    ELSE LET mid == (lo + hi) \div 2
         IN  IF mid * mid <= n THEN ISqrtIn(n, mid, hi) ELSE ISqrtIn(n, lo, mid)

\* the integer square root of n >= 0 (46341 squared exceeds every integer)
ISqrt(n) == ISqrtIn(n, 0, IF n < 46340 THEN n + 1 ELSE 46341)

IsSquare(n) == n >= 0 /\ ISqrt(n) * ISqrt(n) = n

\* np.sqrt of a finite rational that is the square of a rational
Sqrt(a) == <<ISqrt(a[1]), ISqrt(a[2])>>

HasSqrt(a) == IsFinite(a) /\ IsSquare(a[1]) /\ IsSquare(a[2])

RMax(a, b) == IF RLt(a, b) THEN b ELSE a

\* the samples where the potential is above the energy
ForbiddenMask(E, V) ==
    {i \in 1..Len(V) : RLt(E, V[i]) /\ RLt(Int2R(0), RSub(V[i], E))}

\* integrand[i] = sqrt(2 max(0, V[i] - E)) has an exact value
EstimateRepresentable(E, V) ==
    \A i \in ForbiddenMask(E, V) :
        HasSqrt(RMul(Int2R(2), RMax(Int2R(0), RSub(V[i], E))))

RECURSIVE SumOver(_, _)
SumOver(f, S) ==
    IF S = {} THEN Int2R(0)
    ELSE LET i == CHOOSE j \in S : TRUE
         IN  RAdd(f[i], SumOver(f, S \ {i}))

\* what float64 np.exp(y) can be for a finite y: 1.0 at 0, above 1 for
\* y > 0, strictly between 0 and 1 for y < 0 down to the underflow
\* threshold near -745.13, and 0.0 below it
ExpClasses(y) ==
    IF y = Int2R(0) THEN {"one"}
    ELSE IF RLt(Int2R(0), y) THEN {"above_one"}
    ELSE IF RLe(y, Int2R(-746)) THEN {"zero"}
    ELSE IF RLe(Int2R(-745), y) THEN {"between"}
    ELSE {"zero", "between"}

\* a clip that lets a value above 1 through
ClipLowerOnly(class) == class

\* np.clip(T, 0.0, 1.0)
Clip(class) == IF class = "above_one" THEN "one" ELSE class

\* PotentialAnalysis.tunneling_probability_estimate(E, V, x): the values it
\* can return, or the IndexError of x[1] on an array of fewer than 2 samples
TunnelingProbabilityEstimate(E, V, x) ==
    IF Len(x) < 2 THEN {[kind |-> "error", error |-> "IndexError"]}
    ELSE LET dx == RSub(x[2], x[1])
             forbidden_mask == ForbiddenMask(E, V)
         IN  IF forbidden_mask = {} THEN {[kind |-> "value", class |-> "one"]}
             ELSE LET integrand ==
                          [i \in 1..Len(V) |->
                              IF i \in forbidden_mask
                              THEN Sqrt(RMul(Int2R(2), RMax(Int2R(0), RSub(V[i], E))))
                              ELSE Int2R(0)]
                      kappa == RMul(SumOver(integrand, forbidden_mask), dx)
                  IN  {[kind |-> "value", class |-> Clip(c), kappa |-> kappa] :
                          c \in ExpClasses(RMul(Int2R(-2), kappa))}

\* barrier heights: a well, two barriers, and one high enough for exp to
\* underflow
Heights == {Int2R(-2), Int2R(2), Int2R(8), Int2R(278258)}

\* barrier widths: none, narrower than any grid spacing, wide
Widths == {Int2R(0), Rat(1, 4), Int2R(2)}

\* barrier centres: on a grid point and between grid points
Centers == {Int2R(0), Rat(1, 4)}

Energies == {Int2R(-2), Int2R(0), Int2R(2)}

\* the value 1e10 that stands for an infinite wall: <<n, d, e>> is the
\* finite number (n / d) * 10^e, which is too large for a plain rational
Sentinel == <<1, 1, 10>>

\* InfiniteSquareWell.__init__
InfiniteSquareWellInit(width) ==
    [kind |-> "infinite_well", width |-> width,
     left |-> RDiv(RNeg(width), Int2R(2)), right |-> RDiv(width, Int2R(2))]

\* a well that also puts the wall on its two edge points
InfiniteSquareWellOpen(p, x) ==
    [i \in 1..Len(x) |->
        IF RLe(x[i], p.left) \/ RLe(p.right, x[i]) THEN Sentinel ELSE Int2R(0)]

\* InfiniteSquareWell.__call__: zeros, and 1e10 where x < left or x > right
InfiniteSquareWellCall(p, x) ==
    [i \in 1..Len(x) |->
        IF RLt(x[i], p.left) \/ RLt(p.right, x[i]) THEN Sentinel ELSE Int2R(0)]

\* FiniteSquareWell.__init__
FiniteSquareWellInit(width, height) ==
    [kind |-> "finite_well", width |-> width, height |-> height,
     left |-> RDiv(RNeg(width), Int2R(2)), right |-> RDiv(width, Int2R(2))]

\* FiniteSquareWell.__call__: height everywhere, 0 where left <= x <= right
FiniteSquareWellCall(p, x) ==
    [i \in 1..Len(x) |->
        IF RLe(p.left, x[i]) /\ RLe(x[i], p.right) THEN Int2R(0) ELSE p.height]

\* RectangularBarrier.__init__: the object without an evaluation
RectangularBarrierInit(height, width, center) ==
    [kind |-> "rectangular_barrier", height |-> height, width |-> width,
     center |-> center,
     left |-> RSub(center, RDiv(width, Int2R(2))),
     right |-> RAdd(center, RDiv(width, Int2R(2)))]

\* HarmonicOscillator.__init__
HarmonicOscillatorInit(mass, omega) ==
    [kind |-> "harmonic_oscillator", mass |-> mass, omega |-> omega,
     spring_constant |-> RMul(mass, RMul(omega, omega))]

\* HarmonicOscillator.__call__: 0.5 * mass * omega ** 2 * x ** 2
HarmonicOscillatorCall(p, x) ==
    [i \in 1..Len(x) |->
        RMul(RMul(RMul(Rat(1, 2), p.mass), RMul(p.omega, p.omega)),
             RMul(x[i], x[i]))]

\* PiecewisePotential.__init__: the regions <<left, right, value>> sorted by
\* their left edge, regions of the same left edge in the order given
PiecewisePotentialInit(regions) ==
    [kind |-> "piecewise",
     regions |-> Take(regions, Argsort([k \in 1..Len(regions) |-> regions[k][1]]))]

\* PiecewisePotential.__call__ at one point: 0, overwritten by the value of
\* each region that holds the point, in the order of the regions
RECURSIVE PiecewiseAt(_, _, _)
PiecewiseAt(regions, k, xi) ==
    IF k = 0 THEN Int2R(0)
    ELSE IF RLe(regions[k][1], xi) /\ RLe(xi, regions[k][2]) THEN regions[k][3]
    ELSE PiecewiseAt(regions, k - 1, xi)

PiecewisePotentialCall(p, x) ==
    [i \in 1..Len(x) |-> PiecewiseAt(p.regions, Len(p.regions), x[i])]

\* potential(x) for a potential object of one of the five classes
Evaluate(p, x) ==
    IF p.kind = "infinite_well" THEN InfiniteSquareWellCall(p, x)
    ELSE IF p.kind = "finite_well" THEN FiniteSquareWellCall(p, x)
    ELSE IF p.kind = "rectangular_barrier"
         THEN RectangularBarrier(p.height, p.width, p.center, x).V
    ELSE IF p.kind = "harmonic_oscillator" THEN HarmonicOscillatorCall(p, x)
    ELSE PiecewisePotentialCall(p, x)

\* a piecewise potential whose evaluation consumes its last region
EvaluateSelfDropsRegion(p, x) ==
    IF p.kind = "piecewise" /\ Len(p.regions) > 0
    THEN [p EXCEPT !.regions = SubSeq(p.regions, 1, Len(p.regions) - 1)]
    ELSE p

\* the potential object after potential(x): no __call__ assigns an attribute
EvaluateSelf(p, x) == p

\* the caller's array after potential(x): every __call__ only reads x
EvaluateArgument(p, x) == x

\* well and barrier widths: negative, none, and two with grid points on
\* their edges
PotentialWidths == {Int2R(-2), Int2R(0), Int2R(2), Int2R(4)}

PiecewiseRegions ==
    {<<>>,
     <<<<Int2R(0), Int2R(1), Int2R(5)>>, <<Int2R(-1), Int2R(0), Int2R(3)>>>>,
     <<<<Int2R(-1), Int2R(1), Int2R(5)>>, <<Int2R(-1), Int2R(0), Int2R(3)>>>>}

\* the potential objects evaluated
PotentialObjects ==
    {InfiniteSquareWellInit(w) : w \in PotentialWidths}
    \cup {FiniteSquareWellInit(w, Int2R(3)) : w \in PotentialWidths}
    \cup {RectangularBarrierInit(Int2R(3), w, c) :
             w \in PotentialWidths, c \in Centers}
    \cup {HarmonicOscillatorInit(Int2R(m), Int2R(o)) : m \in {1, 2}, o \in {-1, 2}}
    \cup {PiecewisePotentialInit(r) : r \in PiecewiseRegions}

\* the position arrays a potential is evaluated on: every array of up to
\* MaxPoints of these values, in any order, with repetitions, empty included
Positions == {Int2R(-2), Int2R(-1), Int2R(0), Int2R(1)}

RECURSIVE ArraysOfLength(_)
ArraysOfLength(n) ==
    IF n = 0 THEN {<<>>}
    ELSE {Append(a, v) : a \in ArraysOfLength(n - 1), v \in Positions}

PositionArrays == UNION {ArraysOfLength(n) : n \in 0..MaxPoints}

(***************************************************************************)
(* TunnelingSimulation                                                     *)
(***************************************************************************)
\* GaussianWavePacket.create for real x0, sigma, k0 and amplitude
GaussianPacket(x, x0, sigma, k0, amplitude) ==
    [kind |-> "packet",
     amp |-> amplitude,
     q |-> [j \in 1..Len(x) |->
              RDiv(RMul(RSub(x[j], x0), RSub(x[j], x0)),
                   RMul(Int2R(2), RMul(sigma, sigma)))],
     theta |-> [j \in 1..Len(x) |-> RMul(k0, x[j])],
     r |-> Int2R(1),
     gpow |-> 0]

\* TunnelingSimulation.__init__: the grid, the sampled barrier, the
\* normalized initial packet that starts 1.5 right of x_min with width 0.3,
\* and the time-dependent solver; an exception of a constructor it calls
\* leaves no simulation behind
TunnelingSimulationInit(barrier_height, barrier_width, barrier_position, particle_energy, x_min, x_max, num_points, dt) ==
    LET g == QuantumGridInit(x_min, x_max, num_points)
    IN  IF g.kind = "error" THEN g
        ELSE LET barrier == RectangularBarrier(barrier_height, barrier_width,
                                               barrier_position, g.x)
                 x_init == RAdd(Int2R(x_min), Rat(3, 2))
                 packet_width == Rat(3, 10)
                 k0 == Sqrt(RMul(Int2R(2), particle_energy))
                 psi0 == GaussianPacket(g.x, x_init, packet_width, k0, Int2R(1))
                 td_solver == TimeDependentSolverInit(g, barrier.V, 1, dt)
             IN  IF td_solver.kind = "error" THEN td_solver
                 ELSE [kind |-> "simulation",
                       barrier_height |-> barrier_height,
                       barrier_width |-> barrier_width,
                       barrier_position |-> barrier_position,
                       particle_energy |-> particle_energy,
                       dt |-> dt, grid |-> g, x |-> g.x, dx |-> g.dx,
                       potential |-> barrier.V,
                       x_init |-> x_init, packet_width |-> packet_width,
                       k0 |-> k0,
                       psi_init |-> GaussianNormalize(psi0, g.dx),
                       td_solver |-> td_solver]

\* TunnelingSimulation.estimate_wkb_transmission: the computation of
\* tunneling_probability_estimate on the simulation's own potential,
\* energy and spacing (dx = x[1] - x[0])
EstimateWkbTransmission(s) ==
    TunnelingProbabilityEstimate(s.particle_energy, s.potential, s.x)

\* np.argmin(np.abs(x - position)): the first index of the least distance,
\* counted from 0
ArgminAbs(x, position) ==
    LET d == [i \in 1..Len(x) |-> RAbs(RSub(x[i], position))]
    IN  (CHOOSE i \in 1..Len(x) :
            /\ \A j \in 1..Len(x) : RLe(d[i], d[j])
            /\ \A j \in 1..(i - 1) : RLt(d[i], d[j])) - 1

\* int(a) of a finite float: the fraction is cut off, towards zero
PyInt(a) == Sgn(a[1]) * (Abs(a[1]) \div a[2])

Max(a, b) == IF a < b THEN b ELSE a

Min(a, b) == IF a < b THEN a ELSE b

\* the grid index where the barrier region starts
BarrierLeft(s) ==
    LET barrier_center_idx == ArgminAbs(s.x, s.barrier_position)
        barrier_half_width_idx ==
            PyInt(RDiv(s.barrier_width, RMul(Int2R(2), s.dx)))
    IN  Max(0, barrier_center_idx - barrier_half_width_idx)

\* the grid index where the barrier region ends
BarrierRight(s) ==
    LET barrier_center_idx == ArgminAbs(s.x, s.barrier_position)
        barrier_half_width_idx ==
            PyInt(RDiv(s.barrier_width, RMul(Int2R(2), s.dx)))
    IN  Min(Len(s.x), barrier_center_idx + barrier_half_width_idx)

\* a slice bound as Python reads it on n elements: a negative bound counts
\* from the end, and every bound is cut to 0..n
PyBound(i, n) == IF i < 0 THEN Max(i + n, 0) ELSE Min(i, n)

\* a[lo:hi], with indices counted from 0
PySlice(a, lo, hi) == SubSeq(a, PyBound(lo, Len(a)) + 1, PyBound(hi, Len(a)))

\* a / (b + 1e-10), kept as the pair of a and b
OverPlusEpsilon(a, b) == [num |-> a, den |-> b]

\* the decimal exponent of the guard 1e-10 added to the initial probability
EpsilonExponent == 10

RECURSIVE IsPowerOfTen(_, _)
IsPowerOfTen(d, k) ==
    IF k = 0 THEN d = 1 ELSE d % 10 = 0 /\ IsPowerOfTen(d \div 10, k - 1)

\* the rational c is the guard 1e-10
IsEpsilon(c) == c[1] = 1 /\ IsPowerOfTen(c[2], EpsilonExponent)

\* t + r = 1 for t = a / (b + 1e-10) and r = c / (b + 1e-10), which is
\* a + c = b + 1e-10
SumIsOne(t, r) ==
    /\ t.den = r.den
    /\ IsFinite(t.num) /\ IsFinite(r.num) /\ IsFinite(t.den)
    /\ IsEpsilon(RSub(RAdd(t.num, r.num), t.den))

\* TunnelingSimulation.analyze_transmission(trajectory) for a trajectory
\* given as the sequence of its columns, with the WKB estimate wkb
AnalyzeTransmission(s, trajectory, wkb) ==
    IF Len(trajectory) = 0 THEN [kind |-> "error", error |-> "IndexError"]
    ELSE LET barrier_left == BarrierLeft(s)
             barrier_right == BarrierRight(s)
             psi_final == trajectory[Len(trajectory)]
             prob_final == [i \in 1..Len(psi_final) |-> CAbsSq(psi_final[i])]
             n == Len(prob_final)
             prob_transmitted ==
                 RMul(RSum(PySlice(prob_final, barrier_right, n)), s.dx)
             prob_reflected ==
                 RMul(RSum(PySlice(prob_final, 0, barrier_left)), s.dx)
             prob_inside ==
                 RMul(RSum(PySlice(prob_final, barrier_left, barrier_right)), s.dx)
             prob_init == PacketNormSq(s.psi_init, s.dx).coef
         IN  [kind |-> "analysis",
              T_numerical |-> OverPlusEpsilon(prob_transmitted, prob_init),
              R_numerical |-> OverPlusEpsilon(prob_reflected, prob_init),
              prob_inside |-> prob_inside,
              T_wkb |-> wkb,
              prob_transmitted |-> prob_transmitted,
              prob_reflected |-> prob_reflected]

\* barrier widths of a simulation: negative, none, and two that reach over
\* grid points
SimWidths == {Int2R(-2), Int2R(0), Int2R(2), Int2R(4)}

SimHeights == {Int2R(2), Int2R(8)}

SimEnergies == {Int2R(0), Int2R(2)}

\* the spatial domains of a simulation: ascending and descending
SimDomains == {<<-1, 0>>, <<-1, 1>>, <<0, 1>>, <<1, 0>>}

\* the time step of a simulation: two time units of its grid
SimDts(g) ==
    IF g.kind = "grid" THEN {RDiv(Int2R(2), EnergyUnit(g, 1))} ELSE {Int2R(0)}

\* the trajectories handed to the analysis: without a column, and of one or
\* two columns
SimTrajectories(n) ==
    {<<>>} \cup {<<p>> : p \in PsiInputs(n)}
           \cup {<<p, q>> : p \in PsiInputs(n), q \in PsiInputs(n)}

NoSimulation == [kind |-> "none"]

(***************************************************************************)
(* The Flask API layer (api/quantum_api.py, app/backend/app/api/           *)
(* enhanced_api.py).  A request value is [kind |-> "number", value |-> v]  *)
(* or [kind |-> "text"], a text that float() and int() refuse.  The grid   *)
(* of the handlers, QuantumGrid(X_MIN, X_MAX, GRID_POINTS), is taken at    *)
(* the size of the model's grids.                                          *)
(***************************************************************************)
\* the module state of the API process: it serves requests, its 'on_error'
\* webhook list, and the statuses of its last two responses (the tail of its
\* access log)
ApiInit == [serving |-> TRUE, on_error |-> <<>>, log |-> <<>>]

Logged(a, status) ==
    LET l == Append(a.log, status)
    IN  [a EXCEPT !.log = IF Len(l) > 2 THEN Tail(l) ELSE l]

ApiGrid == QuantumGridInit(-MaxCoord, MaxCoord, MaxPoints)

Number(v) == [kind |-> "number", value |-> v]

Text == [kind |-> "text"]

\* what solve_eigenproblem(V, num_eigenvalues=k) hands to a handler, as far
\* as the handler reads it: the error of eigsh for k outside 1..n-1, or the
\* number of eigenpairs returned, which is below k after the
\* ArpackNoConvergence that solve_eigenproblem catches
SolveShapes(s, k) ==
    IF k <= 0 THEN {[kind |-> "error", error |-> "ValueError"]}
    ELSE IF k >= s.grid.num_points THEN {[kind |-> "error", error |-> "TypeError"]}
    ELSE {[kind |-> "return", pairs |-> j] : j \in 0..k}

Raise(e) == [kind |-> "raise", error |-> e]

Done == [kind |-> "done"]

\* the statements of a stationary handler after its parameters are read:
\* solver = StationarySolver(grid, mass); solve_eigenproblem; the response
\* built from column i for i in range(num_states)
StationaryOutcomes(mass, num_states) ==
    LET s == StationarySolverInit(ApiGrid, mass)
    IN  IF s.kind = "error" THEN {Raise(s.error)}
        ELSE {IF o.kind = "error" THEN Raise(o.error)
              ELSE IF o.pairs < num_states THEN Raise("IndexError")
              ELSE Done : o \in SolveShapes(s, num_states)}

\* jsonify({'error': str(e)}), 400
ErrorResponse(e) == [status |-> 400, error |-> e]

\* jsonify(response)
OkResponse == [status |-> 200, error |-> "none"]

\* a handler without its try/except: Flask answers 500 with its own page
CaughtByFlask(e) == [raised |-> e, response |-> [status |-> 500, error |-> "none"]]

\* except Exception as e: return jsonify({'error': str(e)}), 400
Caught(e) == [raised |-> e, response |-> ErrorResponse(e)]

Respond(o) ==
    IF o.kind = "raise" THEN Caught(o.error)
    ELSE [raised |-> "none", response |-> OkResponse]

\* request.get_json() of a request without a JSON body: None (data.get then
\* raises AttributeError) or, in later Flask versions, UnsupportedMediaType
NoBodyErrors == {"AttributeError", "UnsupportedMediaType"}

\* quantum_api.solve_infinite_well
SolveInfiniteWell(body) ==
    IF body.kind = "none" THEN {Caught(e) : e \in NoBodyErrors}
    ELSE IF body.width.kind # "number" THEN {Caught("ValueError")}
    ELSE IF body.num_states.kind # "number" THEN {Caught("ValueError")}
    ELSE {Respond(o) : o \in StationaryOutcomes(1, body.num_states.value)}

\* enhanced_api.solve_infinite_well_full
SolveInfiniteWellFull(params) ==
    IF params.width.kind # "number" THEN {Raise("ValueError")}
    ELSE IF params.num_states.kind # "number" THEN {Raise("ValueError")}
    ELSE StationaryOutcomes(1, params.num_states.value)

\* enhanced_api.solve_finite_well_full
SolveFiniteWellFull(params) ==
    IF params.width.kind # "number" THEN {Raise("ValueError")}
    ELSE IF params.num_states.kind # "number" THEN {Raise("ValueError")}
    ELSE StationaryOutcomes(1, params.num_states.value)

\* enhanced_api.solve_harmonic_full
SolveHarmonicFull(params) ==
    IF params.mass.kind # "number" THEN {Raise("ValueError")}
    ELSE IF params.num_states.kind # "number" THEN {Raise("ValueError")}
    ELSE StationaryOutcomes(params.mass.value, params.num_states.value)

\* enhanced_api.solve_tunneling_full: evolve refuses a duration below 1, and
\* a result of complex arrays is refused by the JSON encoder
SolveTunnelingFull(params) ==
    IF params.width.kind # "number" THEN {Raise("ValueError")}
    ELSE IF params.duration.kind # "number" THEN {Raise("ValueError")}
    ELSE IF params.duration.value < 0 THEN {Raise("ValueError")}
    ELSE IF params.duration.value = 0 THEN {Raise("IndexError")}
    ELSE {Raise("TypeError")}

\* enhanced_api.full_simulation
FullSimulation(body) ==
    IF body.kind = "none" THEN {Caught(e) : e \in NoBodyErrors}
    ELSE LET results ==
                 IF body.type = "infinite-well" THEN SolveInfiniteWellFull(body)
                 ELSE IF body.type = "finite-well" THEN SolveFiniteWellFull(body)
                 ELSE IF body.type = "tunneling" THEN SolveTunnelingFull(body)
                 ELSE IF body.type = "harmonic" THEN SolveHarmonicFull(body)
                 ELSE {Raise("ValueError")}
         IN  {Respond(o) : o \in results}

\* the handler of a route
Handle(route, body) ==
    IF route = "/api/infinite-well" THEN SolveInfiniteWell(body)
    ELSE FullSimulation(body)

\* emit_to_webhooks('on_error', error_data) in the except branch of
\* full_simulation: one POST to each registered URL; a POST that fails is
\* printed and passed over
Notified(a, route, o) ==
    IF route = "/api/full-simulation" /\ o.raised # "none" THEN a.on_error
    ELSE <<>>

\* enhanced_api.register_webhook for the event type 'on_error'
RegisterWebhook(a, url) ==
    IF \E i \in 1..Len(a.on_error) : a.on_error[i] = url THEN a
    ELSE [a EXCEPT !.on_error = Append(@, url)]

ApiRoutes == {"/api/infinite-well", "/api/full-simulation"}

SimulationTypes == {"infinite-well", "finite-well", "tunneling", "harmonic", "other"}

RequestValues == {Number(-1), Number(0), Number(1), Number(2), Text}

\* request bodies: none, and JSON objects with the parameters the handlers
\* read (a parameter that is left out has a numeric default)
ApiBodies ==
    {[kind |-> "none"]}
    \cup {[kind |-> "json", type |-> t, width |-> w, num_states |-> k,
           mass |-> m, duration |-> k] :
             t \in SimulationTypes, w \in {Number(2), Text},
             k \in RequestValues, m \in {Number(0), Number(1)}}

WebhookUrls == {"http://a", "http://b"}

(***************************************************************************)
(* WebhookRegistry (app/backend/app/webhooks/webhook_manager.py).  The     *)
(* registry runs _process_events in a thread of its own, while register,   *)
(* unregister and trigger are called from other threads: the thread is     *)
(* modelled statement by statement (field thread.pc), the calls as single  *)
(* steps that may come between any two of its statements.                  *)
(*                                                                         *)
(* Beside the attributes of the registry the state keeps a history per     *)
(* URL: failed_run, the number of dispatches in a row that ended after     *)
(* max_retries POST attempts without a response, and triggered, the number *)
(* of events queued so far.                                                *)
(***************************************************************************)
MaxRetries == 3

MaxEvents == 3

WebhookEvents == {"simulation.complete", "error.occurred"}

RegistryUrls == {"http://a"}

NoMetadata == [kind |-> "absent"]

\* the thread of _process_events waiting at event_queue.get
\* (attempt is the loop variable of _dispatch_webhook; posts, the number of
\* POSTs the dispatch has made, and responded, whether one of them got a
\* response, are history)
ThreadIdle ==
    [pc |-> "get", event |-> "none", i |-> 0, url |-> "none", attempt |-> 0,
     status |-> 0, posts |-> 0, responded |-> FALSE]

\* WebhookRegistry.__init__
WebhookRegistryInit ==
    [webhooks |-> [e \in WebhookEvents |-> <<>>],
     webhook_metadata |-> [u \in RegistryUrls |-> NoMetadata],
     event_queue |-> <<>>,
     thread |-> ThreadIdle,
     max_retries |-> MaxRetries,
     failed_run |-> [u \in RegistryUrls |-> 0],
     triggered |-> 0]

InList(l, u) == \E i \in 1..Len(l) : l[i] = u

\* list.remove: the first occurrence
RECURSIVE Remove(_, _)
Remove(l, u) ==
    IF l = <<>> THEN l
    ELSE IF Head(l) = u THEN Tail(l)
    ELSE <<Head(l)>> \o Remove(Tail(l), u)

\* {**defaults, **(metadata or {})}: a key of metadata replaces the default
Merged(defaults, metadata) ==
    [k \in DOMAIN defaults \cup DOMAIN metadata |->
        IF k \in DOMAIN metadata THEN metadata[k] ELSE defaults[k]]

\* the dictionary register stores for a URL (last_status 0: not yet set)
NewMetadata(metadata) ==
    Merged([kind |-> "metadata", active |-> TRUE, retry_count |-> 0,
            last_status |-> 0], metadata)

\* WebhookRegistry.register
Register(h, event, url, metadata) ==
    IF ~InList(h.webhooks[event], url)
    THEN [h EXCEPT !.webhooks[event] = Append(@, url),
                   !.webhook_metadata[url] = NewMetadata(metadata)]
    ELSE h

\* WebhookRegistry.unregister
Unregister(h, event, url) ==
    IF InList(h.webhooks[event], url)
    THEN [h EXCEPT !.webhooks[event] = Remove(@, url),
                   !.webhook_metadata[url] = NoMetadata]
    ELSE h

\* WebhookRegistry.trigger
Trigger(h, event) ==
    [h EXCEPT !.event_queue = Append(@, event), !.triggered = @ + 1]

HasMetadata(h, u) == h.webhook_metadata[u].kind = "metadata"

\* the history when a dispatch gets a response: the run of failed
\* dispatches of its URL is over
Delivered(h) ==
    [h EXCEPT !.failed_run[h.thread.url] = 0,
              !.thread.responded = TRUE]

\* for attempt in range(self.max_retries), after an attempt that ended with
\* an exception: the next attempt, or the statements after the loop; a
\* dispatch that leaves the loop without any response prolongs the run of
\* failed dispatches of its URL
NextAttempt(h) ==
    IF h.thread.attempt + 1 < h.max_retries
    THEN [h EXCEPT !.thread.attempt = @ + 1, !.thread.pc = "post"]
    ELSE [h EXCEPT !.thread.pc = "failed",
                   !.failed_run[h.thread.url] =
                       IF h.thread.responded THEN @
                       ELSE IF @ < MaxRetries THEN @ + 1 ELSE @]

\* _dispatch_webhook returns: the loop of _process_events goes on
Return(h) == [h EXCEPT !.thread.pc = "for"]

\* an exception leaves _dispatch_webhook: _process_events logs it and waits
\* for the next event, the other webhooks of this event are passed over
Escapes(h) == [h EXCEPT !.thread = ThreadIdle]

\* the exceptions one requests.post can end with
PostErrors == {"Timeout", "ConnectionError", "Exception"}

StatusCodes == {200, 500}

\* the metadata arguments of register: none, and dictionaries with a key
\* that register itself sets
MetadataArgs ==
    {[name |-> "hook"],
     [name |-> "hook", active |-> FALSE],
     [name |-> "hook", retry_count |-> MaxRetries - 1]}

NoCall == [op |-> "none", in |-> <<>>, out |-> <<>>]

Init ==
    /\ grid = NoGrid
    /\ solver = NoSolver
    /\ td = NoSolver
    /\ used = FALSE
    /\ psi = NoPsi
    /\ pot = NoPotential
    /\ sim = NoSimulation
    /\ api = ApiInit
    /\ hooks = WebhookRegistryInit
    /\ ret = NoCall

\* The program is single-threaded and every operation is a blocking call:
\* ret holds the outcome of the call that has just ended until the caller
\* has taken it, and the next call starts after that.  used tells whether a
\* solve_eigenproblem, step or evolve call has returned from the solver
\* constructed last.
TakeResult ==
    /\ ret # NoCall
    /\ ret' = NoCall
    /\ used' = (used \/ ret.op \in {"step", "evolve", "solve_eigenproblem"})
    /\ UNCHANGED <<grid, solver, td, psi, pot>>
    /\ UNCHANGED <<sim, api, hooks>>

\* grid = QuantumGrid(x_min, x_max, num_points)
CreateGrid ==
    /\ ret = NoCall
    /\ \E x_min \in Coords, x_max \in Coords, num_points \in PointCounts :
        LET r == QuantumGridInit(x_min, x_max, num_points)
        IN  /\ grid' = IF r.kind = "grid" THEN r ELSE grid
            /\ ret' = [op |-> "QuantumGrid",
                       in |-> [x_min |-> x_min, x_max |-> x_max,
                               num_points |-> num_points],
                       out |-> r]
    /\ UNCHANGED <<solver, td, used, psi, pot>>
    /\ UNCHANGED <<sim, api, hooks>>

\* grid.kinetic_energy_matrix(mass)
KineticCall ==
    /\ ret = NoCall
    /\ grid.kind = "grid"
    /\ \E mass \in Masses :
        ret' = [op |-> "kinetic_energy_matrix",
                in |-> [grid |-> grid, mass |-> mass],
                out |-> KineticEnergyMatrix(grid, mass)]
    /\ UNCHANGED <<grid, solver, td, used, psi, pot>>
    /\ UNCHANGED <<sim, api, hooks>>


\* solver = StationarySolver(grid, mass)
NewSolver ==
    /\ ret = NoCall
    /\ grid.kind = "grid"
    /\ \E mass \in Masses :
        LET r == StationarySolverInit(grid, mass)
        IN  /\ solver' = IF r.kind = "solver" THEN r ELSE solver
            /\ used' = IF r.kind = "solver" THEN FALSE ELSE used
            /\ ret' = [op |-> "StationarySolver", in |-> [mass |-> mass], out |-> r]
    /\ UNCHANGED <<grid, td, psi, pot>>
    /\ UNCHANGED <<sim, api, hooks>>

\* solver.solve_eigenproblem(potential, num_eigenvalues[, which]); caller
\* is the caller's potential array after the call (sparse.diags reads it), H
\* the matrix handed to eigsh (or the error that came before it), lib
\* records what eigsh did in the call
Solve ==
    /\ ret = NoCall
    /\ solver.kind = "solver"
    /\ FiniteMatrix(solver.T)
    /\ \E potential \in PotentialInputs(solver), k \in Ks, whichArg \in WhichArgs :
        LET which == IF whichArg = "default" THEN "SM" ELSE whichArg
            V == SparseDiags(potential, solver.grid.num_points)
            args == [potential |-> potential, num_eigenvalues |-> k, which |-> whichArg]
        IN  /\ IF V.kind = "error"
               THEN ret' = [op |-> "solve_eigenproblem", in |-> args, out |-> V,
                            H |-> V, lib |-> [kind |-> "none"],
                            caller |-> potential]
               ELSE LET H == Hamiltonian(solver.T, V)
                    IN  \E e \in Eigsh(H, k, which) :
                           ret' = [op |-> "solve_eigenproblem", in |-> args,
                                   out |-> SolveWith(solver, e), H |-> H,
                                   lib |-> e, caller |-> potential]
            /\ solver' = SolveSelf(solver, V)
    /\ UNCHANGED <<grid, td, used, psi, pot>>
    /\ UNCHANGED <<sim, api, hooks>>

NextGrid == CreateGrid \/ KineticCall \/ TakeResult

SpecGrid == Init /\ [][NextGrid]_vars

(***************************************************************************)
(* C1: a grid request with num_points < 2 or x_min >= x_max fails (any     *)
(* exception is accepted as the InvalidGridError of the specification) and *)
(* yields no grid object.                                                  *)
(***************************************************************************)
C1_InvalidGridRejected ==
    (/\ ret.op = "QuantumGrid"
     /\ (ret.in.num_points < 2 \/ ret.in.x_min >= ret.in.x_max))
        => ret.out.kind = "error"

(***************************************************************************)
(* C9: kinetic_energy_matrix(mass) fails for every mass <= 0 (any          *)
(* exception is accepted as InvalidMassError) and returns no operator.     *)
(* Stated on the grids with dx > 0.                                        *)
(***************************************************************************)
C9_NonPositiveMassRejected ==
    (/\ ret.op = "kinetic_energy_matrix"
     /\ RLt(Int2R(0), ret.in.grid.dx)
     /\ ret.in.mass <= 0)
        => ret.out.kind = "error"

\* a stationary solve starts from any grid the constructor returns
ConstructibleGrids ==
    {g \in {QuantumGridInit(a, b, n) : a \in Coords, b \in Coords, n \in PointCounts} :
        g.kind = "grid"}

InitOnGrid ==
    /\ grid \in ConstructibleGrids
    /\ solver = NoSolver
    /\ td = NoSolver
    /\ used = FALSE
    /\ psi = NoPsi
    /\ pot = NoPotential
    /\ sim = NoSimulation
    /\ api = ApiInit
    /\ hooks = WebhookRegistryInit
    /\ ret = NoCall

\* psi = GaussianWavePacket.create(grid.x, x0, sigma, k0, amplitude)
CreatePacket ==
    /\ ret = NoCall
    /\ grid.kind = "grid"
    /\ \E x0 \in X0s, sigma \in Sigmas, k0 \in K0s, amplitude \in Amplitudes :
        LET r == GaussianCreate(grid.x, x0, sigma, k0, amplitude)
        IN  /\ psi' = r
            /\ ret' = [op |-> "create",
                       in |-> [x0 |-> x0, sigma |-> sigma, k0 |-> k0,
                               amplitude |-> amplitude],
                       out |-> r]
    /\ UNCHANGED <<grid, solver, td, used, pot>>
    /\ UNCHANGED <<sim, api, hooks>>

\* psi = GaussianWavePacket.normalize(psi, grid.dx)
NormalizePacket ==
    /\ ret = NoCall
    /\ grid.kind = "grid"
    /\ psi.kind = "packet"
    /\ LET r == GaussianNormalize(psi, grid.dx)
       IN  /\ psi' = r
           /\ ret' = [op |-> "normalize", in |-> [psi |-> psi, dx |-> grid.dx], out |-> r]
    /\ UNCHANGED <<grid, solver, td, used, pot>>
    /\ UNCHANGED <<sim, api, hooks>>

\* td = TimeDependentSolver(grid, potential, mass, dt); the model builds the
\* solver on grids with dx # 0, where all matrix entries are finite
NewTimeDependentSolver ==
    /\ ret = NoCall
    /\ grid.kind = "grid"
    /\ grid.dx # Int2R(0)
    /\ \E mass \in TdMasses :
       \E potential \in TdPotentials(grid, mass), dt \in Dts(grid, mass) :
        LET r == TimeDependentSolverInit(grid, potential, mass, dt)
        IN  /\ td' = IF r.kind = "tdsolver" THEN r ELSE td
            /\ used' = IF r.kind = "tdsolver" THEN FALSE ELSE used
            /\ ret' = [op |-> "TimeDependentSolver",
                       in |-> [potential |-> potential, mass |-> mass, dt |-> dt],
                       out |-> r]
    /\ UNCHANGED <<grid, solver, psi, pot>>
    /\ UNCHANGED <<sim, api, hooks>>

\* td.step(psi)
StepCall ==
    /\ ret = NoCall
    /\ td.kind = "tdsolver"
    /\ \E p \in PsiInputs(td.grid.num_points) :
        ret' = [op |-> "step", in |-> [psi |-> p], out |-> Step(td, p)]
    /\ td' = StepSelf(td)
    /\ UNCHANGED used
    /\ UNCHANGED <<grid, solver, psi, pot>>
    /\ UNCHANGED <<sim, api, hooks>>

\* td.evolve(psi_init, num_steps)
EvolveCall ==
    /\ ret = NoCall
    /\ td.kind = "tdsolver"
    /\ \E psi_init \in PsiInputs(td.grid.num_points), num_steps \in StepCounts :
        /\ ret' = [op |-> "evolve",
                   in |-> [psi_init |-> psi_init, num_steps |-> num_steps],
                   out |-> Evolve(td, psi_init, num_steps)]
        /\ td' = EvolveSelf(td, num_steps)
    /\ UNCHANGED used
    /\ UNCHANGED <<grid, solver, psi, pot>>
    /\ UNCHANGED <<sim, api, hooks>>

NextEvolve == NewTimeDependentSolver \/ StepCall \/ EvolveCall \/ TakeResult

\* the grids an evolution starts from: spacing positive, negative and zero
EvolveGrids ==
    {g \in {QuantumGridInit(a, b, n) : a \in {-1, 0, 1}, b \in {0, 1},
                                       n \in 2..MaxPoints} : g.kind = "grid"}

InitEvolve ==
    /\ grid \in EvolveGrids
    /\ solver = NoSolver
    /\ td = NoSolver
    /\ used = FALSE
    /\ psi = NoPsi
    /\ pot = NoPotential
    /\ sim = NoSimulation
    /\ api = ApiInit
    /\ hooks = WebhookRegistryInit
    /\ ret = NoCall

SpecEvolve == InitEvolve /\ [][NextEvolve]_vars

\* barrier = RectangularBarrier(height, width, center); V = barrier(grid.x)
BarrierCall ==
    /\ ret = NoCall
    /\ grid.kind = "grid"
    /\ \E height \in Heights, width \in Widths, center \in Centers :
        LET r == RectangularBarrier(height, width, center, grid.x)
        IN  /\ pot' = r
            /\ ret' = [op |-> "RectangularBarrier",
                       in |-> [height |-> height, width |-> width,
                               center |-> center],
                       out |-> r.V]
    /\ UNCHANGED <<grid, solver, td, used, psi>>
    /\ UNCHANGED <<sim, api, hooks>>

\* PotentialAnalysis.tunneling_probability_estimate(E, V, grid.x)
TunnelingCall ==
    /\ ret = NoCall
    /\ grid.kind = "grid"
    /\ pot.kind = "barrier"
    /\ \E E \in Energies :
        /\ EstimateRepresentable(E, pot.V)
        /\ \E r \in TunnelingProbabilityEstimate(E, pot.V, grid.x) :
              ret' = [op |-> "tunneling_probability_estimate",
                      in |-> [E |-> E, V |-> pot.V, x |-> grid.x],
                      out |-> r]
    /\ UNCHANGED <<grid, solver, td, used, psi, pot>>
    /\ UNCHANGED <<sim, api, hooks>>

NextTunneling == BarrierCall \/ TunnelingCall \/ TakeResult

SpecTunneling == InitOnGrid /\ [][NextTunneling]_vars

\* sim = TunnelingSimulation(barrier_height, barrier_width, barrier_position,
\*                           particle_energy, x_min, x_max, num_points, dt),
\* for energies whose wave number sqrt(2 E) has an exact value and domains
\* with x_min # x_max.  A behaviour follows one simulation object: the
\* constructor is called until it has built one.
NewTunnelingSimulation ==
    /\ ret = NoCall
    /\ sim = NoSimulation
    /\ \E d \in SimDomains, num_points \in PointCounts,
          barrier_height \in SimHeights, barrier_width \in SimWidths,
          barrier_position \in Centers, particle_energy \in SimEnergies :
        /\ HasSqrt(RMul(Int2R(2), particle_energy))
        /\ LET g == QuantumGridInit(d[1], d[2], num_points)
           IN  \E dt \in SimDts(g) :
                 \E r \in {TunnelingSimulationInit(
                              barrier_height, barrier_width, barrier_position,
                              particle_energy, d[1], d[2], num_points, dt)} :
                     /\ sim' = IF r.kind = "simulation" THEN r ELSE sim
                     /\ ret' = [op |-> "TunnelingSimulation",
                                in |-> [barrier_height |-> barrier_height,
                                        barrier_width |-> barrier_width,
                                        barrier_position |-> barrier_position,
                                        particle_energy |-> particle_energy,
                                        x_min |-> d[1], x_max |-> d[2],
                                        num_points |-> num_points, dt |-> dt],
                                out |-> r]
    /\ UNCHANGED <<grid, solver, td, used, psi, pot>>
    /\ UNCHANGED <<api, hooks>>

\* sim.analyze_transmission(trajectory)
AnalyzeCall ==
    /\ ret = NoCall
    /\ sim.kind = "simulation"
    /\ EstimateRepresentable(sim.particle_energy, sim.potential)
    /\ \E trajectory \in SimTrajectories(sim.grid.num_points),
          wkb \in EstimateWkbTransmission(sim) :
        ret' = [op |-> "analyze_transmission",
                in |-> [trajectory |-> trajectory],
                out |-> AnalyzeTransmission(sim, trajectory, wkb)]
    /\ UNCHANGED <<grid, solver, td, used, psi, pot>>
    /\ UNCHANGED <<sim, api, hooks>>

NextSimulation == NewTunnelingSimulation \/ AnalyzeCall \/ TakeResult

SpecSimulation == Init /\ [][NextSimulation]_vars

\* pot = InfiniteSquareWell(...), FiniteSquareWell(...), RectangularBarrier(...),
\* HarmonicOscillator(...) or PiecewisePotential(...)
NewPotential ==
    /\ ret = NoCall
    /\ \E p \in PotentialObjects :
        /\ pot' = p
        /\ ret' = [op |-> "Potential", in |-> <<>>, out |-> p]
    /\ UNCHANGED <<grid, solver, td, used, psi>>
    /\ UNCHANGED <<sim, api, hooks>>

\* V = pot(x); caller is the caller's array x after the call
EvaluateCall ==
    /\ ret = NoCall
    /\ pot.kind \in {"infinite_well", "finite_well", "rectangular_barrier",
                     "harmonic_oscillator", "piecewise"}
    /\ \E x \in PositionArrays :
        /\ ret' = [op |-> "evaluate", in |-> [x |-> x],
                   out |-> Evaluate(pot, x),
                   caller |-> EvaluateArgument(pot, x)]
        /\ pot' = EvaluateSelf(pot, x)
    /\ UNCHANGED <<grid, solver, td, used, psi>>
    /\ UNCHANGED <<sim, api, hooks>>

NextPotential == NewPotential \/ EvaluateCall \/ TakeResult

SpecPotential == Init /\ [][NextPotential]_vars

\* one HTTP request to a route of the API, handled to its response; raised
\* is the exception that ended the handler's try block, notified the
\* webhooks the handler posted the error to
ApiRequest ==
    /\ ret = NoCall
    /\ api.serving
    /\ \E route \in ApiRoutes, body \in ApiBodies :
        \E o \in Handle(route, body) :
            /\ ret' = [op |-> "request", in |-> [route |-> route, body |-> body],
                       raised |-> o.raised, out |-> o.response,
                       notified |-> Notified(api, route, o)]
            /\ api' = Logged(api, o.response.status)
    /\ UNCHANGED <<grid, solver, td, used, psi, pot>>
    /\ UNCHANGED <<sim, hooks>>

\* POST /api/webhooks/register with event_type 'on_error'
ApiRegisterWebhook ==
    /\ ret = NoCall
    /\ api.serving
    /\ \E url \in WebhookUrls :
        /\ api' = Logged(RegisterWebhook(api, url), 200)
        /\ ret' = [op |-> "register_webhook", in |-> [webhook_url |-> url],
                   raised |-> "none", out |-> OkResponse, notified |-> <<>>]
    /\ UNCHANGED <<grid, solver, td, used, psi, pot>>
    /\ UNCHANGED <<sim, hooks>>

NextApi == ApiRequest \/ ApiRegisterWebhook \/ TakeResult

SpecApi == Init /\ [][NextApi]_vars

\* register(event, webhook_url, metadata), called from a thread of the
\* application (the boolean it returns is not kept)
RegisterCall ==
    /\ \E event \in WebhookEvents, url \in RegistryUrls, metadata \in MetadataArgs :
        hooks' = Register(hooks, event, url, metadata)
    /\ UNCHANGED <<grid, solver, td, used, psi, pot, sim, api, ret>>

\* unregister(event, webhook_url), called from a thread of the application
UnregisterCall ==
    /\ \E event \in WebhookEvents, url \in RegistryUrls :
        hooks' = Unregister(hooks, event, url)
    /\ UNCHANGED <<grid, solver, td, used, psi, pot, sim, api, ret>>

\* trigger(event, payload), called from a thread of the application
TriggerCall ==
    /\ hooks.triggered < MaxEvents
    /\ \E event \in WebhookEvents : hooks' = Trigger(hooks, event)
    /\ UNCHANGED <<grid, solver, td, used, psi, pot, sim, api, ret>>

\* _process_events: event_queue.get, and the head of
\* for webhook_url in self.webhooks[event], which reads the list as it is
\* when the loop comes to it
ProcessEvents ==
    /\ hooks.thread.pc \in {"get", "for"}
    /\ LET t == hooks.thread
       IN  IF t.pc = "get"
           THEN /\ hooks.event_queue # <<>>
                /\ hooks' = [hooks EXCEPT
                                !.event_queue = Tail(@),
                                !.thread = [ThreadIdle EXCEPT
                                               !.pc = "for",
                                               !.event = Head(hooks.event_queue)]]
           ELSE IF t.i < Len(hooks.webhooks[t.event])
           THEN hooks' = [hooks EXCEPT
                             !.thread = [t EXCEPT
                                 !.pc = IF hooks.max_retries > 0 THEN "post" ELSE "failed",
                                 !.i = @ + 1,
                                 !.url = hooks.webhooks[t.event][t.i + 1],
                                 !.attempt = 0, !.status = 0, !.posts = 0,
                                 !.responded = FALSE]]
           ELSE hooks' = [hooks EXCEPT !.thread = ThreadIdle]
    /\ UNCHANGED <<grid, solver, td, used, psi, pot, sim, api, ret>>

\* one requests.post of _dispatch_webhook that returns a response, of any
\* status code
PostResponds ==
    /\ hooks.thread.pc = "post"
    /\ \E status \in StatusCodes :
        hooks' = [Delivered(hooks) EXCEPT !.thread.pc = "check",
                                          !.thread.status = status,
                                          !.thread.posts = @ + 1]
    /\ UNCHANGED <<grid, solver, td, used, psi, pot, sim, api, ret>>

\* one requests.post that raises: the except clauses log the exception and
\* the loop goes on
PostRaises ==
    /\ hooks.thread.pc = "post"
    /\ \E error \in PostErrors :
        hooks' = NextAttempt([hooks EXCEPT !.thread.posts = @ + 1])
    /\ UNCHANGED <<grid, solver, td, used, psi, pot, sim, api, ret>>

\* the statements of _dispatch_webhook after a response, one at a time: the
\* test for the metadata, the writes of last_triggered and last_status, the
\* reset of retry_count, the return.  A write to metadata that unregister
\* has deleted since the test raises KeyError inside the try block, which
\* except Exception takes for a failed attempt.
UpdateMetadata ==
    /\ hooks.thread.pc \in {"check", "status", "reset", "return"}
    /\ LET t == hooks.thread
       IN  IF t.pc = "check"
           THEN hooks' = [hooks EXCEPT !.thread.pc =
                             IF HasMetadata(hooks, t.url) THEN "status" ELSE "return"]
           ELSE IF t.pc = "return" THEN hooks' = Return(hooks)
           ELSE IF ~HasMetadata(hooks, t.url) THEN hooks' = NextAttempt(hooks)
           ELSE IF t.pc = "status"
           THEN hooks' = [hooks EXCEPT !.webhook_metadata[t.url].last_status = t.status,
                                       !.thread.pc = "reset"]
           ELSE hooks' = [hooks EXCEPT !.webhook_metadata[t.url].retry_count = 0,
                                       !.thread.pc = "return"]
    /\ UNCHANGED <<grid, solver, td, used, psi, pot, sim, api, ret>>

\* the statements of _dispatch_webhook after the loop, one at a time: the
\* test for the metadata, retry_count += 1, the comparison with
\* max_retries, active = False.  These are outside the try block: a
\* KeyError leaves _dispatch_webhook.
MarkFailed ==
    /\ hooks.thread.pc \in {"failed", "increment", "limit", "deactivate"}
    /\ LET t == hooks.thread
       IN  IF t.pc = "failed"
           THEN hooks' = IF HasMetadata(hooks, t.url)
                         THEN [hooks EXCEPT !.thread.pc = "increment"]
                         ELSE Return(hooks)
           ELSE IF ~HasMetadata(hooks, t.url) THEN hooks' = Escapes(hooks)
           ELSE IF t.pc = "increment"
           THEN hooks' = [hooks EXCEPT !.webhook_metadata[t.url].retry_count = @ + 1,
                                       !.thread.pc = "limit"]
           ELSE IF t.pc = "limit"
           THEN hooks' = IF hooks.webhook_metadata[t.url].retry_count >= hooks.max_retries
                         THEN [hooks EXCEPT !.thread.pc = "deactivate"]
                         ELSE Return(hooks)
           ELSE hooks' = Return([hooks EXCEPT !.webhook_metadata[t.url].active = FALSE])
    /\ UNCHANGED <<grid, solver, td, used, psi, pot, sim, api, ret>>

NextWebhooks ==
    \/ RegisterCall \/ UnregisterCall \/ TriggerCall
    \/ ProcessEvents \/ PostResponds \/ PostRaises \/ UpdateMetadata \/ MarkFailed

SpecWebhooks == Init /\ [][NextWebhooks]_vars

\* the registry used one thread at a time: register, without keys of its
\* own in metadata, and unregister are called only while the thread of the
\* registry waits for an event
QuietCall ==
    /\ hooks.thread.pc = "get"
    /\ \E event \in WebhookEvents, url \in RegistryUrls :
        \/ hooks' = Register(hooks, event, url, [name |-> "hook"])
        \/ hooks' = Unregister(hooks, event, url)
    /\ UNCHANGED <<grid, solver, td, used, psi, pot, sim, api, ret>>

NextWebhooksQuiet ==
    \/ QuietCall \/ TriggerCall
    \/ ProcessEvents \/ PostResponds \/ PostRaises \/ UpdateMetadata \/ MarkFailed

SpecWebhooksQuiet == Init /\ [][NextWebhooksQuiet]_vars

NextPacket == CreatePacket \/ NormalizePacket \/ TakeResult

SpecPacket == InitOnGrid /\ [][NextPacket]_vars

NextStationary == NewSolver \/ Solve \/ TakeResult

SpecStationary == InitOnGrid /\ [][NextStationary]_vars

Solved == ret.op = "solve_eigenproblem"

Returned == Solved /\ ret.out.kind = "return"

\* a solver of positive mass on a grid with dx > 0
ProperSolver == solver.mass > 0 /\ RLt(Int2R(0), solver.grid.dx)

\* the Hamiltonian of the call in ret
CallHamiltonian ==
    Hamiltonian(solver.T, SparseDiags(ret.in.potential, solver.grid.num_points))

SeqRange(q) == {q[i] : i \in 1..Len(q)}

(***************************************************************************)
(* C2: when eigsh does not converge, solve_eigenproblem ends with an error *)
(* (any exception is accepted as ConvergenceError) and never with a        *)
(* returned (energies, wavefunctions) pair.  Stated for a solver of        *)
(* positive mass on a grid with dx > 0.                                    *)
(***************************************************************************)
C2_NoConvergenceRaises ==
    (Solved /\ ProperSolver /\ ret.lib.kind = "ArpackNoConvergence")
        => ret.out.kind = "error"

(***************************************************************************)
(* C3: called without `which`, a converged solve returns the               *)
(* num_eigenvalues algebraically lowest eigenvalues of H: no eigenvalue    *)
(* left out is lower than one returned.  Stated for a solver of positive   *)
(* mass on a grid with dx > 0 and a potential of the right length.         *)
(***************************************************************************)
C3_DefaultReturnsLowest ==
    (/\ Returned /\ ProperSolver
     /\ Len(ret.in.potential) = solver.grid.num_points
     /\ ret.in.which = "default" /\ ret.lib.kind = "ok")
        => /\ Len(ret.out.energies) = ret.in.num_eigenvalues
           /\ \A a \in SeqRange(ret.out.energies) :
                \A b \in Spectrum(CallHamiltonian) \ SeqRange(ret.out.energies) :
                    ~RLt(b, a)

(***************************************************************************)
(* C4: the energies of every returned result are in non-decreasing order,  *)
(* whatever order eigsh produced them in.                                  *)
(***************************************************************************)
C4_EnergiesSorted ==
    Returned => \A i \in 1..(Len(ret.out.energies) - 1) :
                    RLe(ret.out.energies[i], ret.out.energies[i + 1])

\* a result of two energies that eigsh handed over in descending order
C4_Witness ==
    /\ Returned
    /\ Len(ret.out.energies) = 2
    /\ RLt(ret.lib.vals[2], ret.lib.vals[1])

(***************************************************************************)
(* C5: every returned wavefunction column has sum |psi|^2 dx = 1.  Stated  *)
(* for a solver of positive mass.                                          *)
(***************************************************************************)
C5_ColumnsNormalized ==
    (Returned /\ solver.mass > 0) => \A i \in 1..Len(ret.out.wavefunctions) :
                    ColumnNormSq(ret.out.wavefunctions[i], solver.grid.dx) = Int2R(1)

\* the same on the grids that satisfy the grid invariant dx > 0
C5_NormalizedWhereDxPositive ==
    (Returned /\ RLt(Int2R(0), solver.grid.dx))
        => \A i \in 1..Len(ret.out.wavefunctions) :
              ColumnNormSq(ret.out.wavefunctions[i], solver.grid.dx) = Int2R(1)

\* |sum conj(psi_i) psi_j dx|^2 of two real columns
OverlapSq(c1, c2, dx) ==
    RMul(RMul(c1.sq, c2.sq), RMul(RMul(Dot(c1.dir, c2.dir), Dot(c1.dir, c2.dir)), RMul(dx, dx)))

(***************************************************************************)
(* C6: two distinct columns of one result are orthogonal on the grid:      *)
(* sum conj(psi_i) psi_j dx = 0.  Stated for a solver of positive mass.    *)
(***************************************************************************)
C6_ColumnsOrthogonal ==
    (Returned /\ solver.mass > 0) => \A i, j \in 1..Len(ret.out.wavefunctions) :
                    i # j => OverlapSq(ret.out.wavefunctions[i], ret.out.wavefunctions[j],
                                       solver.grid.dx) = Int2R(0)

\* the same on the grids that satisfy the grid invariant dx > 0
C6_OrthogonalWhereDxPositive ==
    (Returned /\ RLt(Int2R(0), solver.grid.dx))
        => \A i, j \in 1..Len(ret.out.wavefunctions) :
              i # j => OverlapSq(ret.out.wavefunctions[i], ret.out.wavefunctions[j],
                                 solver.grid.dx) = Int2R(0)

(***************************************************************************)
(* C7: a call whose potential length differs from num_points, or whose     *)
(* num_eigenvalues is not in 1..num_points-1, ends with an error and       *)
(* returns no result.  Stated for a solver of positive mass on a grid with *)
(* dx > 0.                                                                 *)
(***************************************************************************)
C7_BadArgumentsRejected ==
    (/\ Solved /\ ProperSolver
     /\ \/ Len(ret.in.potential) # solver.grid.num_points
        \/ ret.in.num_eigenvalues < 1
        \/ ret.in.num_eigenvalues >= solver.grid.num_points)
        => ret.out.kind = "error"

(***************************************************************************)
(* C8: normalize(psi, dx) of a state of zero norm fails (any exception is  *)
(* accepted as DegenerateStateError) and returns no array.  Stated for     *)
(* dx > 0, where the norm is zero exactly when the amplitude is.           *)
(***************************************************************************)
C8_ZeroNormRejected ==
    (/\ ret.op = "normalize"
     /\ RLt(Int2R(0), ret.in.dx)
     /\ PacketNormSq(ret.in.psi, ret.in.dx).coef = Int2R(0))
        => ret.out.kind = "error"

\* The Crank-Nicolson matrix A = I + i (dt/2) H of a real H and a real dt
\* is never singular: no construction ends with the RuntimeError of splu,
\* and every pivot of a constructed solver has a real part of at least 1.
FactorizationNeverFails ==
    /\ (ret.op = "TimeDependentSolver" /\ ret.out.kind = "error")
          => ret.out.error # "RuntimeError"
    /\ td.kind = "tdsolver"
          => \A i \in 1..td.A_lu.n : RLe(Int2R(1), td.A_lu.u[i][1])

\* once a solver is constructed, evolve ends with an error only for
\* num_steps <= 0
EvolveFailsOnlyOnStepCount ==
    (ret.op = "evolve" /\ ret.in.num_steps >= 1) => ret.out.kind = "trajectory"

\* step applied t times
RECURSIVE StepPower(_, _, _)
StepPower(s, p, t) == IF t = 0 THEN p ELSE Step(s, StepPower(s, p, t - 1))

Evolved == ret.op = "evolve" /\ ret.out.kind = "trajectory"

(***************************************************************************)
(* C11: for num_steps >= 1 evolve returns a trajectory whose column 0 is   *)
(* psi_init and whose column t is step applied t times to psi_init, for    *)
(* every recorded t; the caller's psi_init array is as it was.             *)
(***************************************************************************)
C11_TrajectoryRecordsEveryStep ==
    (ret.op = "evolve" /\ ret.in.num_steps >= 1)
        => /\ ret.out.kind = "trajectory"
           /\ ret.out.columns[1] = ret.in.psi_init
           /\ \A t \in DOMAIN ret.out.columns :
                 ret.out.columns[t] = StepPower(td, ret.in.psi_init, t - 1)
           /\ ret.out.caller = ret.in.psi_init

\* an evolution of at least two steps that moves the state at each step
C11_Witness ==
    /\ Evolved
    /\ Len(ret.out.columns) >= 3
    /\ ret.out.columns[2] # ret.out.columns[1]
    /\ ret.out.columns[3] # ret.out.columns[2]
    /\ ret.out.columns[3] # ret.out.columns[1]

(***************************************************************************)
(* Natural numbers of any size, as sequences of base-10000 digits (least   *)
(* significant first, no leading zero digit): sums of squares of the       *)
(* components of a wavefunction do not fit the integers of the checker.    *)
(***************************************************************************)
RECURSIVE Big(_)
Big(n) == IF n = 0 THEN <<>> ELSE <<n % 10000>> \o Big(n \div 10000)

RECURSIVE BigAddC(_, _, _)
BigAddC(a, b, carry) ==
    IF a = <<>> /\ b = <<>> THEN (IF carry = 0 THEN <<>> ELSE <<carry>>)
    ELSE LET x == (IF a = <<>> THEN 0 ELSE Head(a))
                  + (IF b = <<>> THEN 0 ELSE Head(b)) + carry
         IN  <<x % 10000>> \o BigAddC(IF a = <<>> THEN a ELSE Tail(a),
                                      IF b = <<>> THEN b ELSE Tail(b),
                                      x \div 10000)

BigAdd(a, b) == BigAddC(a, b, 0)

RECURSIVE BigMulDigit(_, _, _)
BigMulDigit(a, d, carry) ==
    IF a = <<>> THEN (IF carry = 0 THEN <<>> ELSE <<carry>>)
    ELSE LET x == Head(a) * d + carry
         IN  <<x % 10000>> \o BigMulDigit(Tail(a), d, x \div 10000)

RECURSIVE BigMul(_, _)
BigMul(a, b) ==
    IF a = <<>> \/ b = <<>> THEN <<>>
    ELSE LET rest == BigMul(a, Tail(b))
             low == IF Head(b) = 0 THEN <<>> ELSE BigMulDigit(a, Head(b), 0)
         IN  BigAdd(low, IF rest = <<>> THEN <<>> ELSE <<0>> \o rest)

RECURSIVE BigLessSameLen(_, _)
BigLessSameLen(a, b) ==
    IF a = <<>> THEN FALSE
    ELSE LET n == Len(a)
         IN  IF a[n] # b[n] THEN a[n] < b[n]
             ELSE BigLessSameLen(SubSeq(a, 1, n - 1), SubSeq(b, 1, n - 1))

BigLess(a, b) ==
    IF Len(a) # Len(b) THEN Len(a) < Len(b) ELSE BigLessSameLen(a, b)

LCM(a, b) == (a \div GCD(a, b)) * b

\* the real and imaginary parts of the components of a wavefunction
Parts(col) == [k \in 1..(2 * Len(col)) |-> col[(k + 1) \div 2][2 - (k % 2)]]

FiniteColumn(col) == \A k \in 1..(2 * Len(col)) : IsFinite(Parts(col)[k])

RECURSIVE CommonDenominator(_)
CommonDenominator(parts) ==
    IF parts = <<>> THEN 1 ELSE LCM(Head(parts)[2], CommonDenominator(Tail(parts)))

RECURSIVE BigSumSquares(_, _)
BigSumSquares(parts, L) ==
    IF parts = <<>> THEN <<>>
    ELSE LET m == Big(Abs(Head(parts)[1]) * (L \div Head(parts)[2]))
         IN  BigAdd(BigMul(m, m), BigSumSquares(Tail(parts), L))

\* np.sum(np.abs(psi)**2) of a finite wavefunction as the fraction num / den^2
SumAbsSq(col) ==
    LET L == CommonDenominator(Parts(col))
    IN  [num |-> BigSumSquares(Parts(col), L), den |-> Big(L)]

\* | sum|c_t|^2 dx - sum|c_0|^2 dx | < 1e-6
ProbabilityWithin(c0, ct, dx) ==
    /\ FiniteColumn(c0) /\ FiniteColumn(ct) /\ IsFinite(dx)
    /\ LET p0 == SumAbsSq(c0)
           pt == SumAbsSq(ct)
           d0 == BigMul(p0.den, p0.den)
           dt == BigMul(pt.den, pt.den)
           scale == BigMul(Big(Abs(dx[1])), Big(1000000))
           X == BigMul(BigMul(pt.num, d0), scale)
           Y == BigMul(BigMul(p0.num, dt), scale)
           Z == BigMul(Big(dx[2]), BigMul(d0, dt))
       IN  BigLess(X, BigAdd(Y, Z)) /\ BigLess(Y, BigAdd(X, Z))

(***************************************************************************)
(* C12: along every trajectory evolve returns, the total probability       *)
(* sum |psi(.,t)|^2 dx of every column t differs from that of column 0 by  *)
(* less than 1e-6, for every time step and every real potential.           *)
(***************************************************************************)
C12_ProbabilityConserved ==
    Evolved => \A t \in DOMAIN ret.out.columns :
                  ProbabilityWithin(ret.out.columns[1], ret.out.columns[t],
                                    td.grid.dx)

\* two steps in a potential that is not flat, with a time step that is not 0
C12_Witness ==
    /\ Evolved
    /\ Len(ret.out.columns) >= 3
    /\ td.dt # Int2R(0)
    /\ \E i \in DOMAIN td.potential : td.potential[i] # Int2R(0)
    /\ ret.out.columns[3] # ret.out.columns[1]

\* the solver a new construction with the configuration of s gives
AsConstructed(s) == TimeDependentSolverInit(s.grid, s.potential, s.mass, s.dt)

(***************************************************************************)
(* C13: after construction a TimeDependentSolver has no state transition:  *)
(* a step or evolve call leaves its grid, potential, mass, dt, Hamiltonian,*)
(* the two Crank-Nicolson matrices and the factorization as they were, and *)
(* its result is the one a newly constructed solver gives for the same     *)
(* input, whichever calls came before.                                     *)
(***************************************************************************)
C13_SolverImmutable ==
    [][ret'.op \in {"step", "evolve"}
          => /\ td' = td
             /\ ret'.op = "step"
                   => ret'.out = Step(AsConstructed(td), ret'.in.psi)
             /\ ret'.op = "evolve"
                   => ret'.out = Evolve(AsConstructed(td), ret'.in.psi_init,
                                        ret'.in.num_steps)]_vars

\* a step on a solver that earlier calls have used, with a time step that
\* is not 0
C13_Witness ==
    /\ ret.op = "step"
    /\ used
    /\ td.dt # Int2R(0)
    /\ ret.out # ret.in.psi

(***************************************************************************)
(* C14: the left-hand Crank-Nicolson matrix is factorized once, at         *)
(* construction: after any sequence of step and evolve calls the solver    *)
(* has performed one factorization, it holds the factorization of its      *)
(* matrix A, and a step is the solve against that factorization.           *)
(***************************************************************************)
C14_FactorizedOnce ==
    td.kind = "tdsolver"
        => /\ td.factorizations = 1
           /\ td.A_lu = Splu(td.A)
           /\ ret.op = "step"
                 => ret.out = LuSolve(AsConstructed(td).A_lu,
                                      MatVec(td.B, ret.in.psi))

\* an evolution of two steps or more on a solver that earlier calls have used
C14_Witness ==
    /\ Evolved
    /\ used
    /\ ret.in.num_steps >= 3
    /\ td.dt # Int2R(0)

\* a newly constructed solver with the grid and mass of s
FreshSolver(s) == StationarySolverInit(s.grid, s.mass)

\* the matrix a solver hands to eigsh for a potential, or the error of
\* sparse.diags
EigshMatrix(s, potential) ==
    LET V == SparseDiags(potential, s.grid.num_points)
    IN  IF V.kind = "error" THEN V ELSE Hamiltonian(s.T, V)

(***************************************************************************)
(* C15: solve_eigenproblem has no side effect and keeps no state between   *)
(* calls: it leaves the solver (kinetic operator, mass, grid) and the      *)
(* caller's potential array as they were, and each call on a reused solver *)
(* returns what a newly constructed solver returns for that potential: it  *)
(* hands the same matrix to eigsh and makes the same result of what eigsh  *)
(* finds.                                                                  *)
(***************************************************************************)
C15_SolveHasNoSideEffects ==
    [][ret'.op = "solve_eigenproblem"
          => /\ solver' = solver
             /\ ret'.caller = ret'.in.potential
             /\ ret'.H = EigshMatrix(FreshSolver(solver), ret'.in.potential)
             /\ ret'.out = IF ret'.H.kind = "error" THEN ret'.H
                           ELSE SolveWith(FreshSolver(solver), ret'.lib)]_vars

\* a solve that returns eigenpairs on a solver that earlier calls have used
C15_Witness ==
    /\ Returned
    /\ used
    /\ Len(ret.out.energies) >= 2

\* the grid invariant: num_points samples from x_min to x_max, strictly
\* increasing with the uniform spacing dx = (x_max - x_min)/(num_points - 1) > 0
GridInvariant(g) ==
    /\ Len(g.x) = g.num_points
    /\ g.x[1] = Int2R(g.x_min)
    /\ g.x[g.num_points] = Int2R(g.x_max)
    /\ \A i \in 1..(g.num_points - 1) :
          RLt(g.x[i], g.x[i + 1]) /\ RSub(g.x[i + 1], g.x[i]) = g.dx
    /\ g.dx = Rat(g.x_max - g.x_min, g.num_points - 1)
    /\ RLt(Int2R(0), g.dx)

(***************************************************************************)
(* C16: every grid that construction returns satisfies the grid invariant  *)
(* (num_points entries, x[0] = x_min, x[last] = x_max, strictly increasing *)
(* and uniform, dx = (x_max - x_min)/(num_points - 1) > 0).  The other     *)
(* half of the claim, that no later operation changes the grid, is         *)
(* GridNeverChanges below.                                                 *)
(***************************************************************************)
C16_GridInvariantHolds == grid.kind = "grid" => GridInvariant(grid)

\* no operation on a grid changes it
GridNeverChanges ==
    [][(grid.kind = "grid" /\ ret'.op # "QuantumGrid") => grid' = grid]_vars

\* the invariant holds of the grids constructed with x_min < x_max
C16_InvariantWhereBoundsOrdered ==
    (grid.kind = "grid" /\ grid.x_min < grid.x_max) => GridInvariant(grid)

\* H is the n x n symmetric tridiagonal matrix with diagonal
\* 1/(mass dx^2) + V[i] and off-diagonals -1/(2 mass dx^2)
IsHamiltonianOf(H, g, mass, V) ==
    LET n == g.num_points
        dx2 == RMul(g.dx, g.dx)
    IN  /\ H.kind = "matrix" /\ H.n = n
        /\ Len(H.main) = n /\ Len(H.sup) = n - 1 /\ Len(H.sub) = n - 1
        /\ \A i \in 1..n :
              H.main[i] = RAdd(RDiv(Int2R(1), RMul(Int2R(mass), dx2)), V[i])
        /\ \A i \in 1..(n - 1) :
              /\ H.sup[i] = RNeg(RDiv(Int2R(1), RMul(Int2R(2 * mass), dx2)))
              /\ H.sub[i] = H.sup[i]

(***************************************************************************)
(* C17: the Hamiltonian both solvers assemble from a potential of          *)
(* num_points values is H = T + diag(V): num_points x num_points,          *)
(* symmetric and tridiagonal, with diagonal entries 1/(mass dx^2) + V[i]   *)
(* and super- and sub-diagonal entries -1/(2 mass dx^2).                   *)
(***************************************************************************)
C17_HamiltonianEntries ==
    /\ (/\ Solved
        /\ Len(ret.in.potential) = solver.grid.num_points)
          => IsHamiltonianOf(ret.H, solver.grid, solver.mass, ret.in.potential)
    /\ (/\ td.kind = "tdsolver"
        /\ Len(td.potential) = td.grid.num_points)
          => IsHamiltonianOf(td.H, td.grid, td.mass, td.potential)

\* a solve on three points with a potential that is not flat
C17_Witness ==
    /\ Returned
    /\ solver.grid.num_points = 3
    /\ Len(ret.in.potential) = 3
    /\ ret.in.potential[1] # ret.in.potential[2]
    /\ ret.H.main[1] # ret.H.main[2]

\* a time-dependent solver on three points with a potential that is not flat
C17_WitnessTimeDependent ==
    /\ td.kind = "tdsolver"
    /\ td.grid.num_points = 3
    /\ td.H.main[1] # td.H.main[2]

\* the matrix I + sign i H dt/2, entry by entry
CrankNicolsonMatrix(sign, H, dt) ==
    LET h == RMul(Int2R(sign), RDiv(dt, Int2R(2)))
    IN  Tridiag(H.n,
                [i \in 1..(H.n - 1) |-> Cx(Int2R(0), RMul(h, H.sup[i]))],
                [i \in 1..H.n |-> Cx(Int2R(1), RMul(h, H.main[i]))],
                [i \in 1..(H.n - 1) |-> Cx(Int2R(0), RMul(h, H.sub[i]))])

(***************************************************************************)
(* C18: step(psi) returns the psi_next with                                *)
(* (I + i H dt/2) psi_next = (I - i H dt/2) psi, for the H and the dt the  *)
(* solver was constructed with: plus on the left, minus on the right.      *)
(***************************************************************************)
C18_StepSolvesCrankNicolson ==
    ret.op = "step"
        => MatVec(CrankNicolsonMatrix(1, td.H, td.dt), ret.out)
              = MatVec(CrankNicolsonMatrix(-1, td.H, td.dt), ret.in.psi)

\* a step on three points in a potential that is not flat, with a time
\* step that is not 0
C18_Witness ==
    /\ ret.op = "step"
    /\ td.grid.num_points = 3
    /\ td.dt # Int2R(0)
    /\ td.H.main[1] # td.H.main[2]
    /\ ret.out # ret.in.psi

Estimated == ret.op = "tunneling_probability_estimate"

(***************************************************************************)
(* C19: tunneling_probability_estimate(E, V, x) returns exactly 1.0 when   *)
(* no grid point is classically forbidden (V[i] <= E for every i), and in  *)
(* every case its result lies in [0, 1].                                   *)
(***************************************************************************)
C19_EstimateInUnitInterval ==
    Estimated
        => /\ ret.out.kind = "value"
           /\ ret.out.class \in {"zero", "between", "one"}
           /\ (\A i \in 1..Len(ret.in.V) : RLe(ret.in.V[i], ret.in.E))
                 => ret.out.class = "one"

\* an estimate over a forbidden region on a grid of negative spacing, where
\* exp(-2 kappa) is above 1 before the clip
C19_Witness ==
    /\ Estimated
    /\ ForbiddenMask(ret.in.E, ret.in.V) # {}
    /\ RLt(ret.out.kappa, Int2R(0))

\* an estimate with no forbidden point under a barrier that is on the grid
C19_WitnessNoForbiddenPoint ==
    /\ Estimated
    /\ ForbiddenMask(ret.in.E, ret.in.V) = {}
    /\ \E i \in 1..Len(ret.in.V) : ret.in.V[i] # Int2R(0)

(***************************************************************************)
(* C20: for a rectangular barrier evaluated on a grid,                     *)
(* tunneling_probability_estimate returns a value strictly between 0 and 1 *)
(* whenever barrier_height > particle_energy and the barrier width is      *)
(* finite and positive.  Stated on the grids with x_min < x_max.           *)
(***************************************************************************)
C20_BarrierEstimateStrictlyInside ==
    (/\ Estimated
     /\ grid.x_min < grid.x_max
     /\ RLt(ret.in.E, pot.height)
     /\ IsFinite(pot.width) /\ RLt(Int2R(0), pot.width))
        => ret.out.kind = "value" /\ ret.out.class = "between"

\* the estimate is strictly between 0 and 1 where a grid point lies in the
\* barrier, the spacing is positive and 2 kappa stays below 745
C20_InsideWhereBarrierIsSampled ==
    (/\ Estimated
     /\ grid.x_min < grid.x_max
     /\ RLt(ret.in.E, pot.height)
     /\ \E i \in 1..Len(ret.in.V) : ret.in.V[i] = pot.height
     /\ RLe(RMul(Int2R(2), ret.out.kappa), Int2R(745)))
        => ret.out.kind = "value" /\ ret.out.class = "between"

\* the estimates of the barrier of width w, the rest as in the call that has
\* returned
EstimatesAtWidth(w) ==
    TunnelingProbabilityEstimate(
        ret.in.E, RectangularBarrier(pot.height, w, pot.center, ret.in.x).V,
        ret.in.x)

\* the argument of np.exp as far as it decides the clipped value: -2 kappa,
\* or 0 where the clip or the early return gives 1.0
ClippedExponent(r) ==
    IF r.class = "one" THEN Int2R(0) ELSE RMul(Int2R(-2), r.kappa)

ClassRank(class) == IF class = "zero" THEN 0 ELSE IF class = "between" THEN 1 ELSE 2

\* both exponents lie where the model leaves open whether exp underflows
BothNearUnderflow(r2, r1) ==
    \A y \in {ClippedExponent(r2), ClippedExponent(r1)} :
        RLt(Int2R(-746), y) /\ RLt(y, Int2R(-745))

\* the estimate r2 is not larger than the estimate r1 (np.exp increases
\* with its argument)
NotLarger(r2, r1) ==
    /\ RLe(ClippedExponent(r2), ClippedExponent(r1))
    /\ ClassRank(r2.class) <= ClassRank(r1.class) \/ BothNearUnderflow(r2, r1)

Analyzed == ret.op = "analyze_transmission" /\ ret.out.kind = "analysis"

(***************************************************************************)
(* C22: the analysis of a trajectory reports T as the probability right of *)
(* the barrier over the initial probability and R = 1 - T: the reported T  *)
(* and R sum to 1.                                                         *)
(***************************************************************************)
C22_TransmissionAndReflectionSumToOne ==
    Analyzed => SumIsOne(ret.out.T_numerical, ret.out.R_numerical)

\* what the analysis reports instead: T and R are the masses right and left
\* of the barrier region, each over the initial probability plus 1e-10
C22_ReportsBothMasses ==
    Analyzed
        => /\ ret.out.T_numerical =
                  OverPlusEpsilon(ret.out.prob_transmitted,
                                  PacketNormSq(sim.psi_init, sim.dx).coef)
           /\ ret.out.R_numerical =
                  OverPlusEpsilon(ret.out.prob_reflected,
                                  PacketNormSq(sim.psi_init, sim.dx).coef)

\* the probability of the final column: sum |psi_final|^2 dx
FinalProbability ==
    LET psi_final == ret.in.trajectory[Len(ret.in.trajectory)]
    IN  RMul(RSum([i \in 1..Len(psi_final) |-> CAbsSq(psi_final[i])]), sim.dx)

\* the three index ranges of the analysis are disjoint and cover the grid
RegionsPartition ==
    /\ 0 <= BarrierLeft(sim)
    /\ BarrierLeft(sim) <= BarrierRight(sim)
    /\ BarrierRight(sim) <= sim.grid.num_points
    /\ RAdd(ret.out.prob_reflected,
            RAdd(ret.out.prob_inside, ret.out.prob_transmitted))
          = FinalProbability

(***************************************************************************)
(* C28: the analysis splits the grid indices into three ranges that        *)
(* partition it: 0 <= barrier_left <= barrier_right <= num_points always,  *)
(* and reflected + inside + transmitted probability is the probability of  *)
(* the final column.                                                       *)
(***************************************************************************)
C28_RegionsPartitionGrid == Analyzed => RegionsPartition

\* the ranges partition the grid where the barrier width is not negative
\* and the grid ascends
C28_PartitionWhereWidthAndSpacingPositive ==
    (/\ Analyzed
     /\ RLe(Int2R(0), sim.barrier_width)
     /\ RLt(Int2R(0), sim.dx))
        => RegionsPartition

(***************************************************************************)
(* C23: create followed by normalize yields a state with                   *)
(* sum |psi|^2 dx = 1 for every nonzero amplitude, and normalizing an      *)
(* already normalized state leaves its norm at 1.                          *)
(***************************************************************************)
C23_NormalizedHasUnitNorm ==
    (ret.op = "normalize" /\ ret.in.psi.amp # Int2R(0))
        => PacketNormSq(ret.out, ret.in.dx) = [coef |-> Int2R(1), gexp |-> 0]

\* the norm is 1 where the spacing is positive and the packet has a
\* component whose square does not underflow
C23_UnitNormWherePacketIsOnGrid ==
    (/\ ret.op = "normalize"
     /\ ret.in.psi.amp # Int2R(0)
     /\ RLt(Int2R(0), ret.in.dx)
     /\ ~Vanishes(ret.in.psi))
        => PacketNormSq(ret.out, ret.in.dx) = [coef |-> Int2R(1), gexp |-> 0]

\* a packet of nonzero amplitude on an ascending grid whose components have
\* all underflowed is normalized to nan
C23_UnderflowReached ==
    /\ ret.op = "normalize"
    /\ ret.in.psi.amp # Int2R(0)
    /\ RLt(Int2R(0), ret.in.dx)
    /\ ret.in.psi.r = Int2R(1)
    /\ Vanishes(ret.in.psi)
    /\ IsNaN(PacketNormSq(ret.out, ret.in.dx).coef)

WellEvaluated == ret.op = "evaluate" /\ pot.kind = "infinite_well"

(***************************************************************************)
(* C24: InfiniteSquareWell(width) evaluates to 0 at every point with       *)
(* |x| <= width/2, the two edge points included, and to the finite         *)
(* sentinel 1e10 (never infinity) at every point with |x| > width/2.       *)
(***************************************************************************)
C24_InfiniteWellValues ==
    WellEvaluated
        => \A i \in 1..Len(ret.in.x) :
              LET half == RDiv(pot.width, Int2R(2))
              IN  /\ RLe(RAbs(ret.in.x[i]), half) => ret.out[i] = Int2R(0)
                  /\ RLt(half, RAbs(ret.in.x[i]))
                        => /\ ret.out[i] = Sentinel
                           /\ IsFinite(ret.out[i])

\* an evaluation at both edge points of a well and at a point outside it
C24_Witness ==
    /\ WellEvaluated
    /\ RLt(Int2R(0), pot.width)
    /\ \E i, j, k \in 1..Len(ret.in.x) :
          /\ ret.in.x[i] = pot.left /\ ret.out[i] = Int2R(0)
          /\ ret.in.x[j] = pot.right /\ ret.out[j] = Int2R(0)
          /\ RLt(ret.in.x[k], pot.left) /\ ret.out[k] = Sentinel

(***************************************************************************)
(* C25: evaluating a potential of any class is pure and never rejects its  *)
(* input: for every array x, of any length, ordering and spacing, it       *)
(* returns an array of the same length, leaves x and the potential's       *)
(* parameters as they were, and gives the same values when called again    *)
(* with the same x.                                                        *)
(***************************************************************************)
C25_EvaluationIsPure ==
    [][ret'.op = "evaluate"
          => /\ Len(ret'.out) = Len(ret'.in.x)
             /\ ret'.caller = ret'.in.x
             /\ pot' = pot
             /\ ret'.out = Evaluate(pot', ret'.in.x)]_vars

\* a piecewise potential of two overlapping regions evaluated on a
\* descending array with a repeated point
C25_Witness ==
    /\ ret.op = "evaluate"
    /\ pot.kind = "piecewise"
    /\ Len(pot.regions) = 2
    /\ Len(ret.in.x) = 3
    /\ RLt(ret.in.x[2], ret.in.x[1])
    /\ ret.in.x[3] = ret.in.x[2]
    /\ ret.out[1] # ret.out[2]

\* the empty array is evaluated to the empty array
C25_WitnessEmptyArray ==
    /\ ret.op = "evaluate"
    /\ ret.in.x = <<>>
    /\ ret.out = <<>>

(***************************************************************************)
(* C26: in the API layer an error raised while a request is handled is     *)
(* reported to the client as the error message of that request only: the   *)
(* handler returns an error response, the operation is aborted, and the    *)
(* process keeps serving the requests that follow.                         *)
(***************************************************************************)
C26_ErrorsAnsweredPerRequest ==
    [][(ret'.op = "request" /\ ret'.raised # "none")
          => /\ ret'.out = ErrorResponse(ret'.raised)
             /\ api'.serving
             /\ api'.on_error = api.on_error]_vars

\* a request is answered with a result right after a request of the same
\* process that was answered with an error, with a webhook registered for
\* 'on_error'
C26_Witness ==
    /\ api.log = <<400, 200>>
    /\ ret.op = "request"
    /\ ret.out = OkResponse
    /\ Len(api.on_error) > 0

\* a request ended by the ZeroDivisionError of the kinetic operator, and
\* posted to the webhooks registered for 'on_error'
C26_WitnessCoreError ==
    /\ ret.op = "request"
    /\ ret.raised = "ZeroDivisionError"
    /\ ret.notified # <<>>

(***************************************************************************)
(* C27: sorting keeps eigenpairs together.  In every result of             *)
(* solve_eigenproblem one permutation of what eigsh returned gives both    *)
(* the energies and the columns: column i is the eigenvector eigsh         *)
(* returned for energies[i], rescaled by the normalization and not moved   *)
(* or turned, and it is an eigenvector of H for energies[i].               *)
(***************************************************************************)
C27_EigenpairsStayTogether ==
    Returned =>
        LET n == Len(ret.lib.vals)
        IN  /\ Len(ret.out.energies) = n
            /\ Len(ret.out.wavefunctions) = n
            /\ \E idx \in [1..n -> 1..n] :
                /\ \A i, j \in 1..n : idx[i] = idx[j] => i = j
                /\ \A i \in 1..n :
                    /\ ret.out.energies[i] = ret.lib.vals[idx[i]]
                    /\ ret.out.wavefunctions[i].dir = ret.lib.vecs[idx[i]].dir
                    /\ IsEigenpair(ret.H, ret.out.energies[i],
                                   ret.out.wavefunctions[i].dir)

\* a result of two pairs that eigsh handed over in descending order of
\* energy, so that the sort exchanged them, with columns the normalization
\* rescaled
C27_Witness ==
    /\ Returned
    /\ Len(ret.lib.vals) = 2
    /\ RLt(ret.lib.vals[2], ret.lib.vals[1])
    /\ ret.out.wavefunctions[1].dir = ret.lib.vecs[2].dir
    /\ ret.out.wavefunctions[1].dir # ret.lib.vecs[1].dir
    /\ ret.out.wavefunctions[1].sq # ret.lib.vecs[2].sq

(***************************************************************************)
(* C29: evolve(psi_init, num_steps) with num_steps >= 1 returns a          *)
(* trajectory of exactly num_steps columns, made by num_steps - 1          *)
(* applications of step: the first column is psi_init and each later       *)
(* column is one step of the column before it.  With num_steps <= 0 it     *)
(* fails with an error and returns no empty trajectory, and the solver and *)
(* psi_init are as they were.                                              *)
(***************************************************************************)
C29_EvolveColumnsAndErrors ==
    [][(ret = NoCall /\ ret'.op = "evolve") =>
          LET num_steps == ret'.in.num_steps
              out == ret'.out
          IN  /\ num_steps >= 1 =>
                    /\ out.kind = "trajectory"
                    /\ Len(out.columns) = num_steps
                    /\ out.columns[1] = ret'.in.psi_init
                    /\ \A t \in 2..num_steps :
                          out.columns[t] = Step(td, out.columns[t - 1])
              /\ num_steps <= 0 =>
                    /\ out.kind = "error"
                    /\ td' = td
                    /\ out.caller = ret'.in.psi_init]_vars

\* an evolution of the largest step count, whose last column is not the
\* column before it
C29_Witness ==
    /\ ret.op = "evolve"
    /\ ret.in.num_steps = MaxSteps
    /\ ret.out.kind = "trajectory"
    /\ Len(ret.out.columns) = MaxSteps
    /\ ret.out.columns[MaxSteps] # ret.out.columns[MaxSteps - 1]

\* evolve called with num_steps = 0 on a state that is not zero
C29_WitnessNoSteps ==
    /\ ret.op = "evolve"
    /\ ret.in.num_steps = 0
    /\ ret.out.kind = "error"
    /\ \E i \in DOMAIN ret.in.psi_init : ret.in.psi_init[i] # CZero

(***************************************************************************)
(* C30: in the webhook registry the metadata of a webhook is marked        *)
(* inactive only after max_retries dispatches in a row that each made all  *)
(* max_retries POST attempts without a response; a dispatch makes at most  *)
(* max_retries attempts and makes none after its first response; and a     *)
(* delivered dispatch sets the retry_count of its webhook to 0.            *)
(***************************************************************************)
Active(h, u) == HasMetadata(h, u) /\ h.webhook_metadata[u].active

Inactive(h, u) == HasMetadata(h, u) /\ ~h.webhook_metadata[u].active

Posted == hooks'.thread.posts = hooks.thread.posts + 1

C30_InactiveOnlyAfterFailedRun ==
    [][/\ \A u \in RegistryUrls :
            (Active(hooks, u) /\ Inactive(hooks', u))
                => hooks'.failed_run[u] >= MaxRetries
       /\ Posted => (hooks'.thread.posts <= MaxRetries /\ ~hooks.thread.responded)
       /\ (hooks.thread.pc = "reset" /\ hooks'.thread.pc = "return")
            => hooks'.webhook_metadata[hooks.thread.url].retry_count = 0]_vars

\* the same statement holds of a registry that is used one thread at a time
\* (SpecWebhooksQuiet); there a webhook is deactivated after three
\* exhausted dispatches in a row
C30_DeactivatedAfterFailedRun ==
    \E u \in RegistryUrls :
        /\ Inactive(hooks, u)
        /\ hooks.failed_run[u] = MaxRetries
        /\ hooks.webhook_metadata[u].retry_count = MaxRetries

\* a dispatch that got a response with its first POST and went on to make
\* all the others
C30_PostsAfterResponse ==
    /\ hooks.thread.responded
    /\ hooks.thread.pc = "failed"
    /\ hooks.thread.posts = MaxRetries
    /\ hooks.failed_run[hooks.thread.url] = 0

\* a webhook marked inactive with no failed dispatch behind it
C30_InactiveWithoutFailedRun ==
    \E u \in RegistryUrls :
        /\ Inactive(hooks, u)
        /\ hooks.failed_run[u] = 0
        /\ hooks.thread.pc = "for"
        /\ hooks.thread.posts > 0

====
